---- MODULE Spec2Model ----
(***************************************************************************)
(* Model of the tunnel supervisor of ssh-manager (internal/tunnel).        *)
(*                                                                         *)
(* The Manager is shared by client goroutines (CLI / TUI calls), one       *)
(* watcher goroutine per launched child and timer goroutines.  Every       *)
(* critical section of the code (mu.Lock .. mu.Unlock) is one atomic step; *)
(* everything the code does with the mutex released (the launcher call,    *)
(* signals, the unsynchronised accesses of allowPublicBind) is a step of   *)
(* its own, so other goroutines interleave exactly where the code lets     *)
(* them.                                                                   *)
(***************************************************************************)
EXTENDS Integers, Sequences, FiniteSets, TLC

(* ---------------- bounds of the model ---------------- *)

\* number of contexts (Start seeds) the Manager may allocate in one run
MaxStarts == 3
\* number of client operations begun in one run
MaxOps == 3
\* number of operations begun in one run with the restart policy on
MaxPolicyOps == 2
\* lines in the event journal file
MaxLines == 3

(* ---------------- program constants ---------------- *)

MinPort == 1
MaxPort == 65535
\* max-attempts of the restart policy, as configured by the restart tests
RestartMaxAttempts == 1

\* the client goroutines that call into the Manager concurrently
Threads == {1, 2}
Gens == 1 .. MaxStarts
\* PID of a process that was not launched by this Manager instance
ExtPid == MaxStarts + 1

BindPolicyLoopbackOnly == "loopback-only"
BindPolicyAllowPublic == "allow-public"

(* ---------------- inputs ---------------- *)

FwdLoop == [LocalAddr |-> "127.0.0.1", LocalPort |-> 9000, RemoteAddr |-> "localhost", RemotePort |-> 80]
FwdPublic == [LocalAddr |-> "0.0.0.0", LocalPort |-> 9300, RemoteAddr |-> "localhost", RemotePort |-> 80]
FwdBadPort == [LocalAddr |-> "127.0.0.1", LocalPort |-> 0, RemoteAddr |-> "localhost", RemotePort |-> 80]
FwdBadRemotePort == [LocalAddr |-> "127.0.0.1", LocalPort |-> 9000, RemoteAddr |-> "localhost", RemotePort |-> 65536]
FwdBadHost == [LocalAddr |-> "a b", LocalPort |-> 9000, RemoteAddr |-> "localhost", RemotePort |-> 80]
FwdBadPath == [LocalAddr |-> "127.0.0.1", LocalPort |-> 9000, RemoteAddr |-> "a/b", RemotePort |-> 80]
ZeroFwd == [LocalAddr |-> "", LocalPort |-> 0, RemoteAddr |-> "", RemotePort |-> 0]
FwdLoop2 == [LocalAddr |-> "127.0.0.1", LocalPort |-> 9100, RemoteAddr |-> "localhost", RemotePort |-> 81]

\* the (host alias, forward) pairs the clients pass to Start
StartInputs == {<<"api", FwdLoop>>, <<"db", FwdPublic>>, <<"api", FwdBadPort>>}

\* errors the launcher can return (exec.Cmd.Start); the home directory is /home/u
LaunchErrors == {"exec: \"ssh\": executable file not found in $PATH",
                 "fork/exec /home/u/.ssh/ssh: permission denied"}
\* the error of Cmd.Wait() for a child that exited with a failure status or was killed
ErrExit == "exit status 1"
ErrContextCanceled == "context canceled"

(* ---------------- pure functions ---------------- *)

\* strings: the character at a position, the positions of a character (0
\* where Go returns -1), prefixes and suffixes
Digits == <<"0", "1", "2", "3", "4", "5", "6", "7", "8", "9">>
At(s, i) == SubSeq(s, i, i)
Index(s, ch) ==
    IF \E i \in 1 .. Len(s) : At(s, i) = ch
    THEN CHOOSE i \in 1 .. Len(s) : At(s, i) = ch /\ \A j \in 1 .. (i - 1) : At(s, j) # ch
    ELSE 0
LastIndex(s, ch) ==
    IF \E i \in 1 .. Len(s) : At(s, i) = ch
    THEN CHOOSE i \in 1 .. Len(s) : At(s, i) = ch /\ \A j \in (i + 1) .. Len(s) : At(s, j) # ch
    ELSE 0
Count(s, ch) == Cardinality({i \in 1 .. Len(s) : At(s, i) = ch})
HasPrefix(s, ch) == Len(s) > 0 /\ At(s, 1) = ch
HasSuffix(s, ch) == Len(s) > 0 /\ At(s, Len(s)) = ch
From(s, i) == SubSeq(s, i, Len(s))
Upto(s, i) == SubSeq(s, 1, i)

\* strconv.Atoi: an optional sign and decimal digits
RECURSIVE AtoiDigits(_, _)
AtoiDigits(s, acc) ==
    IF s = "" THEN acc
    ELSE AtoiDigits(From(s, 2), acc * 10 + (CHOOSE d \in 0 .. 9 : Digits[d + 1] = At(s, 1)))
Atoi(s) ==
    LET body == IF HasPrefix(s, "-") \/ HasPrefix(s, "+") THEN From(s, 2) ELSE s IN
    IF Len(body) > 0 /\ \A i \in 1 .. Len(body) : \E d \in 1 .. 10 : Digits[d] = At(body, i)
    THEN [ok |-> TRUE, n |-> IF HasPrefix(s, "-") THEN 0 - AtoiDigits(body, 0) ELSE AtoiDigits(body, 0)]
    ELSE [ok |-> FALSE, n |-> 0]

\* strconv.Itoa of a number that is not negative
RECURSIVE Itoa(_)
Itoa(n) == IF n < 10 THEN Digits[n + 1] ELSE Itoa(n \div 10) \o Digits[(n % 10) + 1]

\* strings.Fields for fields separated by blanks
RECURSIVE Fields(_)
Fields(s) ==
    IF s = "" THEN <<>>
    ELSE IF HasPrefix(s, " ") THEN Fields(From(s, 2))
    ELSE IF Index(s, " ") = 0 THEN <<s>>
    ELSE <<Upto(s, Index(s, " ") - 1)>> \o Fields(From(s, Index(s, " ") + 1))

RECURSIVE TrimSpace(_)
TrimSpace(s) ==
    IF HasPrefix(s, " ") THEN TrimSpace(From(s, 2))
    ELSE IF HasSuffix(s, " ") THEN TrimSpace(Upto(s, Len(s) - 1))
    ELSE s

RECURSIVE TrimBrackets(_)
TrimBrackets(s) ==
    IF HasPrefix(s, "[") \/ HasPrefix(s, "]") THEN TrimBrackets(From(s, 2))
    ELSE IF HasSuffix(s, "[") \/ HasSuffix(s, "]") THEN TrimBrackets(Upto(s, Len(s) - 1))
    ELSE s

IsIP(s) == s \in {"127.0.0.1", "0.0.0.0", "::", "::1", "2001:db8::1"}

IsUnspecifiedIP(s) == s \in {"0.0.0.0", "::"}

NormalizeAddr(addr, fallback) == IF TrimSpace(addr) = "" THEN fallback ELSE TrimSpace(addr)

ValidatePort_Always(port) == TRUE

ValidatePort(port) == ~(port < MinPort \/ port > MaxPort)

validateEndpointHost(host) ==
    LET h == TrimSpace(host) IN
    /\ h # ""
    /\ Count(h, " ") = 0
    /\ (IsIP(TrimBrackets(h)) \/ TrimBrackets(h) = "localhost" \/ Count(TrimBrackets(h), "/") = 0)

validateForwardSpec(fwd) ==
    /\ validateEndpointHost(NormalizeAddr(fwd.LocalAddr, "127.0.0.1"))
    /\ validateEndpointHost(NormalizeAddr(fwd.RemoteAddr, "localhost"))

\* what a forward parser returns
ParseErr(e) == [ok |-> FALSE, fwd |-> ZeroFwd, err |-> e]
ParseOk(fwd) == [ok |-> TRUE, fwd |-> fwd, err |-> ""]

\* net.SplitHostPort of a string that starts with "[": host, port string, error
SplitHostPort(s) ==
    LET i == LastIndex(s, ":")
        end == Index(s, "]")
        host == SubSeq(s, 2, end - 1)
    IN
    IF i = 0 THEN [host |-> "", port |-> "", err |-> "missing port in address"]
    ELSE IF end = 0 THEN [host |-> "", port |-> "", err |-> "missing ']' in address"]
    ELSE IF end = Len(s) THEN [host |-> "", port |-> "", err |-> "missing port in address"]
    ELSE IF end + 1 # i
         THEN [host |-> "", port |-> "",
               err |-> IF At(s, end + 1) = ":" THEN "too many colons in address"
                       ELSE "missing port in address"]
    ELSE IF Index(From(s, 2), "[") # 0
         THEN [host |-> "", port |-> "", err |-> "unexpected '[' in address"]
    ELSE IF Index(From(s, end + 1), "]") # 0
         THEN [host |-> "", port |-> "", err |-> "unexpected ']' in address"]
    ELSE [host |-> host, port |-> From(s, i + 1), err |-> ""]

\* the remote endpoint at the right end of a forward argument, and what is left of it
parseAddrPortTail(s) ==
    LET idx == LastIndex(s, ":")
        left == Upto(s, idx - 1)
        start == LastIndex(left, "[")
        hostSep == LastIndex(left, ":")
        fail(e) == [addr |-> "", port |-> 0, rest |-> "", err |-> e]
    IN
    IF idx <= 1 \/ idx = Len(s)
    THEN fail("forward format must include remote host and remote port")
    ELSE IF ~Atoi(From(s, idx + 1)).ok THEN fail("invalid remote port")
    ELSE IF HasSuffix(left, "]")
         THEN IF start = 0 \/ start = 1 \/ At(left, start - 1) # ":"
              THEN fail("invalid bracketed IPv6 remote host")
              ELSE [addr |-> SubSeq(left, start + 1, Len(left) - 1),
                    port |-> Atoi(From(s, idx + 1)).n,
                    rest |-> Upto(left, start - 2), err |-> ""]
    ELSE IF hostSep <= 1 \/ hostSep = Len(left)
         THEN fail("forward format must be localPort:remoteHost:remotePort or localAddr:localPort:remoteHost:remotePort")
    ELSE [addr |-> From(left, hostSep + 1), port |-> Atoi(From(s, idx + 1)).n,
          rest |-> Upto(left, hostSep - 1), err |-> ""]

\* the local endpoint "addr:port" of a forward argument
splitAddrPort(s) ==
    LET hp == SplitHostPort(s)
        idx == LastIndex(s, ":")
        fail(e) == [addr |-> "", port |-> 0, err |-> e]
    IN
    IF HasPrefix(s, "[")
    THEN IF hp.err # "" THEN fail(hp.err)
         ELSE IF ~Atoi(hp.port).ok THEN fail("strconv.Atoi: invalid syntax")
         ELSE [addr |-> hp.host, port |-> Atoi(hp.port).n, err |-> ""]
    ELSE IF Count(s, ":") > 1
         THEN fail("IPv6 local bind addresses must be bracketed, e.g. [::1]:8080")
    ELSE IF idx <= 1 \/ idx = Len(s) THEN fail("expected host:port")
    ELSE IF ~Atoi(From(s, idx + 1)).ok THEN fail("strconv.Atoi: invalid syntax")
    ELSE [addr |-> Upto(s, idx - 1), port |-> Atoi(From(s, idx + 1)).n, err |-> ""]

\* ParseForwardArg: "localPort:remoteHost:remotePort" or
\* "localAddr:localPort:remoteHost:remotePort", parsed from the right
ParseForwardArg(arg) ==
    LET s == TrimSpace(arg)
        tail == parseAddrPortTail(s)
        num == Atoi(tail.rest)
        sp == splitAddrPort(tail.rest)
        localAddr == IF num.ok THEN "" ELSE sp.addr
        localPort == IF num.ok THEN num.n ELSE sp.port
        fwd == [LocalAddr |-> NormalizeAddr(localAddr, "127.0.0.1"), LocalPort |-> localPort,
                RemoteAddr |-> NormalizeAddr(tail.addr, "localhost"), RemotePort |-> tail.port]
    IN
    IF s = "" THEN ParseErr("forward cannot be empty")
    ELSE IF tail.err # "" THEN ParseErr(tail.err)
    ELSE IF ~num.ok /\ sp.err # "" THEN ParseErr("invalid local endpoint: " \o sp.err)
    ELSE IF ~ValidatePort(localPort) THEN ParseErr("invalid local port")
    ELSE IF ~ValidatePort(tail.port) THEN ParseErr("invalid remote port")
    ELSE IF ~validateForwardSpec(fwd) THEN ParseErr("invalid forward specification")
    ELSE ParseOk(fwd)

\* fmt.Sprintf("%s:%d", addr, port): the runtime's Local and Remote strings
FormatEndpoint(addr, port) == addr \o ":" \o Itoa(port)

\* the forward argument handed to ssh -L: "%s:%d:%s:%d"
FormatForwardArg(fwd) ==
    NormalizeAddr(fwd.LocalAddr, "127.0.0.1") \o ":" \o Itoa(fwd.LocalPort) \o ":"
        \o NormalizeAddr(fwd.RemoteAddr, "localhost") \o ":" \o Itoa(fwd.RemotePort)

isPublicBindAddr(addr) ==
    LET v == TrimBrackets(TrimSpace(addr)) IN
    IF v = "" THEN FALSE
    ELSE IF v = "*" THEN TRUE
    ELSE IsIP(v) /\ IsUnspecifiedIP(v)

RuntimeID_Raw(hostAlias, fwd) ==
    <<hostAlias, fwd.LocalAddr, fwd.LocalPort, fwd.RemoteAddr, fwd.RemotePort>>

\* RuntimeID: the parts of the id, in the order fmt.Sprintf prints them
RuntimeID(hostAlias, fwd) ==
    <<hostAlias, NormalizeAddr(fwd.LocalAddr, "127.0.0.1"), fwd.LocalPort,
      NormalizeAddr(fwd.RemoteAddr, "localhost"), fwd.RemotePort>>

\* the id as the string RuntimeID returns: "%s|%s:%d|%s:%d"
FormatRuntimeID(id) ==
    id[1] \o "|" \o id[2] \o ":" \o Itoa(id[3]) \o "|" \o id[4] \o ":" \o Itoa(id[5])

\* security.RedactMessage: the home directory becomes "~", "/.ssh/" gains a marker
RedactMessage(msg) ==
    IF msg = "" THEN msg
    ELSE IF msg = "fork/exec /home/u/.ssh/ssh: permission denied"
         THEN "fork/exec ~/.ssh/[redacted]/ssh: permission denied"
         ELSE msg

\* security.UserMessage for an unclassified error; "" stands for a nil error
UserMessage(err, redact) == IF err = "" THEN "" ELSE IF redact THEN RedactMessage(err) ELSE err

\* a second tunnel of host api, known from the runtime file of an earlier session
IdApi2 == RuntimeID("api", FwdLoop2)

Ids == {RuntimeID(in[1], in[2]) : in \in {i \in StartInputs : ValidatePort(i[2].LocalPort) /\ ValidatePort(i[2].RemotePort)}}
       \cup {IdApi2}
NoId == <<>>

TunnelStates == {"down", "starting", "up", "error", "stopping", "quarantined"}

(* ---------------- state ---------------- *)

VARIABLES
    runtime,          \* Manager.runtime: id -> TunnelRuntime (State "absent" = no key)
    cancel,           \* Manager.cancel: id -> context handle (0 = no key)
    bindPolicy,       \* Manager.bindPolicy
    allowPublicBind,  \* Manager.allowPublicBind
    nextGen,          \* number of contexts allocated so far
    cancelled,        \* contexts whose cancel function has been called
    procs,            \* child processes, by the context they were launched under
    ext,              \* processes of an earlier session, by the id whose record names them
    watcher,          \* watchProcess goroutines, by child
    th,               \* client goroutines: position and locals
    ops,              \* number of client operations begun
    restartEnabled,   \* restart policy: enabled
    restartAttempts,  \* per-tunnel restart attempt counter
    restartStats,     \* per-tunnel statistics: attempts, successes, failures
    resetTimer,       \* armed stable-window timers, by the started-at they carry
    results,          \* Snapshot: the results channel of each call
    probes,           \* Snapshot: the probe goroutines of each call, by entry
    journal,          \* the event journal: events in append order
    committed,        \* number of journalled transitions committed so far
    pending,          \* the event each task has yet to append, by task
    journalOn,        \* whether this run keeps the event journal
    evFile,           \* events.jsonl: its lines, in file order
    evRead,           \* Store.Read: the query, the scanner position and the result
    parsed,           \* the last call of a forward parser: its input and what it returned
    cfgRun,           \* config.ParseFile: the files, the include stack and the result
    disk,             \* runtime.json: the record written for each id (State "absent" = none)
    persistSt,        \* the persist call of each task: its position and its local arr
    persistOn         \* whether this run keeps the runtime file

mgrVars == <<runtime, cancel, bindPolicy, allowPublicBind, nextGen, cancelled>>
osVars == <<procs, ext, watcher>>
policyVars == <<restartEnabled, restartAttempts, restartStats, resetTimer>>
probeVars == <<results, probes>>
journalVars == <<journal, committed, pending, journalOn>>
vars == <<runtime, cancel, bindPolicy, allowPublicBind, nextGen, cancelled, procs, ext, watcher,
          th, ops, restartEnabled, restartAttempts, restartStats, resetTimer, results, probes,
          journal, committed, pending, journalOn, evFile, evRead, parsed, cfgRun,
          disk, persistSt, persistOn>>
persistVars == <<disk, persistSt, persistOn>>
auxVars == <<evFile, evRead, parsed, cfgRun, disk, persistSt, persistOn>>
mainVars == <<runtime, cancel, bindPolicy, allowPublicBind, nextGen, cancelled, procs, ext, watcher,
              th, ops, restartEnabled, restartAttempts, restartStats, resetTimer, results, probes,
              journal, committed, pending, journalOn>>

\* the Manager calls, numbered in the order they begin
Calls == 1 .. MaxOps

NoEntry == [HostAlias |-> "", Forward |-> ZeroFwd, State |-> "absent", PID |-> 0, StartedAt |-> 0, LastError |-> ""]
NoProc == [id |-> NoId, status |-> "none", err |-> FALSE]
\* an element of the slice Snapshot returns
OutRecord(rt, now) ==
    [HostAlias |-> rt.HostAlias, Forward |-> rt.Forward, State |-> rt.State, PID |-> rt.PID,
     StartedAt |-> rt.StartedAt, LastError |-> rt.LastError,
     UptimeSec |-> IF rt.StartedAt # 0 THEN now - rt.StartedAt ELSE 0, LatencyMS |-> 0]
NoOut == OutRecord(NoEntry, 0)
NoProbe == [st |-> "none", latencyMS |-> 0, err |-> FALSE]
NoChan == [cap |-> 0, buf |-> <<>>]

\* the tasks that append events: the client goroutines, and the watcher of
\* child g as 0 - g
WatcherTask(g) == 0 - g
Tasks == Threads \cup {WatcherTask(g) : g \in Gens}
NoEvent == [TunnelID |-> NoId, EventType |-> "", seq |-> 0, by |-> 0]

Idle == [pc |-> "idle", op |-> "none", id |-> NoId, host |-> "", fwd |-> ZeroFwd, rt |-> NoEntry, gen |-> 0, err |-> "", todo |-> {},
         arr |-> [id \in Ids |-> NoEntry],
         out |-> [id \in Ids |-> NoOut], collected |-> 0, expected |-> 0, call |-> 0,
         findings |-> {}]
\* no forward parser has been called; no config parse is running
NoParse == [fn |-> "none", via |-> "none", in |-> "", spec |-> ZeroFwd, ok |-> FALSE, fwd |-> ZeroFwd, err |-> ""]
NoRun == [pc |-> "idle"]
\* Store.Read is not running
NoQuery == [HostAlias |-> "", TunnelID |-> "", EventType |-> "", Since |-> 0, Limit |-> 0]
NoRead == [pc |-> "idle", q |-> NoQuery, pos |-> 0, out |-> <<>>, err |-> ""]
NoStats == [Attempts |-> 0, Successes |-> 0, Failures |-> 0]

Has(id) == runtime[id].State # "absent"

\* the PID recorded for id in the runtime file of an earlier session
ExtPidOf(id) == ExtPid + Cardinality({j \in Ids : j[3] < id[3]})
ExtOwner(pid) == {id \in Ids : ExtPidOf(id) = pid}

\* what the OS can hold under a saved PID: the tunnel's own child, an unrelated
\* process, another tunnel of the same host, a live process ps cannot show;
\* "dead" is an exited process, "none" no process at all
AliveOs == {"alive_match", "alive_other", "alive_sibling", "alive_hidden"}
OsValues == AliveOs \cup {"dead", "none"}

processAlive_Always(pid) == TRUE

\* processAlive: signal 0 reaches a child until it has been reaped
processAlive(pid) ==
    \/ pid \in Gens /\ procs[pid].status \in {"running", "dead"}
    \/ \E id \in ExtOwner(pid) : ext[id] \in AliveOs

\* cancelling a context kills the child launched under it (exec.CommandContext)
Kill(ps, g) == IF g \in Gens /\ ps[g].status = "running"
               THEN [ps EXCEPT ![g].status = "dead", ![g].err = TRUE]
               ELSE ps

\* a record of runtime.json, as far as its state and PID go
FileRecord(rt) == [State |-> rt.State, PID |-> rt.PID]
\* no runtime.json has been written; no persist call is running
NoFile == [id \in Ids |-> FileRecord(NoEntry)]
NoPersist == [st |-> "none", arr |-> NoFile]

\* the Manager as NewManager builds it
NewManager ==
    /\ runtime = [id \in Ids |-> NoEntry]
    /\ cancel = [id \in Ids |-> 0]
    /\ bindPolicy \in {BindPolicyLoopbackOnly, BindPolicyAllowPublic}
    /\ allowPublicBind = FALSE
    /\ nextGen = 0
    /\ cancelled = {}
    /\ procs = [g \in Gens |-> NoProc]
    /\ ext = [id \in Ids |-> "none"]
    /\ watcher = [g \in Gens |-> "none"]
    /\ th = [t \in Threads |-> Idle]
    /\ ops = 0
    /\ restartEnabled \in BOOLEAN
    /\ restartAttempts = [id \in Ids |-> 0]
    /\ restartStats = [id \in Ids |-> NoStats]
    /\ resetTimer = {}
    /\ results = [c \in Calls |-> NoChan]
    /\ probes = [c \in Calls |-> [id \in Ids |-> NoProbe]]
    /\ journal = <<>>
    /\ committed = 0
    /\ pending = [k \in Tasks |-> NoEvent]
    /\ journalOn \in BOOLEAN
    /\ evFile = <<>>
    /\ evRead = NoRead
    /\ parsed = NoParse
    /\ cfgRun = NoRun
    /\ persistSt = [k \in Tasks |-> NoPersist]

Init == NewManager /\ disk = NoFile /\ persistOn = FALSE

(* ---------------- runtime file ---------------- *)

\* the task calls m.persist() after it has released the lock
PersistCall(k) ==
    /\ persistSt' = IF persistOn THEN [persistSt EXCEPT ![k].st = "lock"] ELSE persistSt
    /\ UNCHANGED <<disk, persistOn>>

\* persist, critical section: the entries are copied into arr
PersistSnapshot(k) ==
    /\ persistSt[k].st = "lock"
    /\ persistSt' = [persistSt EXCEPT ![k] = [st |-> "write", arr |-> [id \in Ids |-> FileRecord(runtime[id])]]]
    /\ UNCHANGED <<disk, persistOn>>
    /\ UNCHANGED mainVars /\ UNCHANGED <<evFile, evRead, parsed, cfgRun>>

\* persist, after the unlock: os.WriteFile replaces the file by arr
PersistWrite(k) ==
    /\ persistSt[k].st = "write"
    /\ disk' = persistSt[k].arr
    /\ persistSt' = [persistSt EXCEPT ![k] = NoPersist]
    /\ UNCHANGED persistOn
    /\ UNCHANGED mainVars /\ UNCHANGED <<evFile, evRead, parsed, cfgRun>>

(* ---------------- event journal ---------------- *)

\* the task has written the runtime file and appended the event of its last
\* transition
Ready(k) == pending[k] = NoEvent /\ persistSt[k].st = "none"

\* a transition of entry id has been committed under the lock by task k: the
\* event is appended once the lock is released, before the task goes on
Commit(k, id, type) ==
    /\ pending' = IF journalOn
                  THEN [pending EXCEPT ![k] = [TunnelID |-> id, EventType |-> type, seq |-> committed + 1, by |-> k]]
                  ELSE pending
    /\ committed' = IF journalOn THEN committed + 1 ELSE committed
    /\ UNCHANGED <<journal, journalOn>>

StoreAppend_Prepend(j, evt) == <<evt>> \o j

\* Store.Append: one line written to the file opened with O_APPEND
StoreAppend(j, evt) == Append(j, evt)

\* task k appends its event
EmitEvent(k) ==
    /\ pending[k] # NoEvent
    /\ journal' = StoreAppend(journal, pending[k])
    /\ pending' = [pending EXCEPT ![k] = NoEvent]
    /\ UNCHANGED <<committed, journalOn>>
    /\ UNCHANGED mgrVars /\ UNCHANGED osVars /\ UNCHANGED policyVars /\ UNCHANGED probeVars
    /\ UNCHANGED <<th, ops>>
    /\ UNCHANGED auxVars

\* goroutine t enters a Manager call
Enter(t) == th[t].pc = "idle" /\ Ready(t) /\ ops < MaxOps /\ ops' = ops + 1

\* idle client goroutines are interchangeable: the lowest idle one takes the call
FirstIdle(t) == th[t].pc = "idle" /\ \A u \in Threads : u < t => th[u].pc # "idle"

(* ---------------- SetAllowPublicBind ---------------- *)

SetAllowPublicBind(t, allow) ==
    /\ Enter(t)
    /\ allowPublicBind' = allow
    /\ UNCHANGED <<runtime, cancel, bindPolicy, nextGen, cancelled, th>>
    /\ UNCHANGED osVars /\ UNCHANGED policyVars
    /\ UNCHANGED probeVars
    /\ UNCHANGED journalVars
    /\ UNCHANGED auxVars

(* ---------------- LoadRuntime ---------------- *)

QuarantinedOnLoad_PidKept(rt) ==
    [rt EXCEPT !.State = "quarantined",
               !.LastError = "recovered runtime entry was quarantined (process mismatch)"]

QuarantinedOnLoad(rt) ==
    [rt EXCEPT !.State = "quarantined",
               !.LastError = "recovered runtime entry was quarantined (process mismatch)",
               !.PID = 0]


\* TunnelRuntime.Local and TunnelRuntime.Remote of the entry id
LocalOf(id) == id[2] \o ":" \o Itoa(id[3])
RemoteOf(id) == id[4] \o ":" \o Itoa(id[5])

\* the command line of the child the launcher spawns for the tunnel id
TunnelCommand(id) == "ssh -N -L " \o LocalOf(id) \o ":" \o RemoteOf(id) \o " " \o id[1]

\* strings.Contains
Contains(s, sub) == \E i \in 1..(Len(s) - Len(sub) + 1) : SubSeq(s, i, i + Len(sub) - 1) = sub

\* processCommand: the output of ps for the process saved for id, "" on error
processCommand(id, os) ==
    CASE os = "alive_match" -> TunnelCommand(id)
      [] os = "alive_other" -> "sleep 30"
      [] os = "alive_sibling" -> "ssh -N -L 127.0.0.1:9999:localhost:22 " \o id[1]
      [] OTHER -> ""

isManagedTunnelProcess_NoEndpoints(cmdline, id, rt) ==
    /\ Contains(TrimSpace(cmdline), "ssh") /\ Contains(TrimSpace(cmdline), "-N")
    /\ Contains(TrimSpace(cmdline), "-L")
    /\ Contains(TrimSpace(cmdline), rt.HostAlias)

isManagedTunnelProcess(cmdline, id, rt) ==
    /\ Contains(TrimSpace(cmdline), "ssh") /\ Contains(TrimSpace(cmdline), "-N")
    /\ Contains(TrimSpace(cmdline), "-L")
    /\ Contains(TrimSpace(cmdline), rt.HostAlias)
    /\ Contains(TrimSpace(cmdline), LocalOf(id)) /\ Contains(TrimSpace(cmdline), RemoteOf(id))

\* the record LoadRuntime stores for the saved record rt of id, os being what
\* the OS holds under rt.PID
LoadedRecord(id, rt, os) ==
    IF rt.PID > 0 /\ processAlive(rt.PID)
    THEN IF processCommand(id, os) # "" /\ isManagedTunnelProcess(processCommand(id, os), id, rt)
         THEN rt
         ELSE QuarantinedOnLoad(rt)
    ELSE [rt EXCEPT !.State = "down", !.PID = 0]

\* a record of runtime.json: Forward and StartedAt are not serialized
SavedRecord(id, state, pid) ==
    [HostAlias |-> id[1], Forward |-> ZeroFwd, State |-> state, PID |-> pid, StartedAt |-> 0, LastError |-> ""]

\* LoadRuntime on a fresh Manager, up to mu.Lock: runtime.json is read; saved
\* is the set of ids in it, state their saved state and os what the OS holds
\* under each saved PID ("none": the record has no PID)
LoadRuntime(t, saved, state, os) ==
    /\ Enter(t)
    /\ ops = 0 /\ \A id \in Ids : ~Has(id)
    /\ th' = [th EXCEPT ![t] = [Idle EXCEPT !.pc = "lr_lock", !.op = "LoadRuntime",
             !.arr = [id \in Ids |-> IF id \in saved
                                     THEN SavedRecord(id, state, IF os[id] = "none" THEN 0 ELSE ExtPidOf(id))
                                     ELSE NoEntry]]]
    /\ ext' = [id \in Ids |-> IF id \in saved THEN os[id] ELSE ext[id]]
    /\ UNCHANGED mgrVars /\ UNCHANGED <<procs, watcher>> /\ UNCHANGED policyVars
    /\ UNCHANGED probeVars
    /\ UNCHANGED journalVars
    /\ UNCHANGED auxVars

\* LoadRuntime, critical section: every saved record is classified and stored
LoadLocked(t) ==
    /\ th[t].pc = "lr_lock"
    /\ runtime' = [id \in Ids |-> IF th[t].arr[id].State # "absent"
                                  THEN LoadedRecord(id, th[t].arr[id], ext[id])
                                  ELSE runtime[id]]
    /\ th' = [th EXCEPT ![t] = Idle]
    /\ UNCHANGED <<cancel, bindPolicy, allowPublicBind, nextGen, cancelled, ops>>
    /\ UNCHANGED osVars /\ UNCHANGED policyVars
    /\ UNCHANGED probeVars
    /\ UNCHANGED journalVars
    /\ UNCHANGED auxVars

\* a process of an earlier session exits
ExtExit(id) ==
    /\ ext[id] \in AliveOs
    /\ ext' = [ext EXCEPT ![id] = "dead"]
    /\ UNCHANGED mgrVars /\ UNCHANGED <<procs, watcher, th, ops>> /\ UNCHANGED policyVars
    /\ UNCHANGED probeVars
    /\ UNCHANGED journalVars
    /\ UNCHANGED auxVars

(* ---------------- Start ---------------- *)

BindRejected_Never(fwd) == FALSE

BindRejected(fwd) ==
    bindPolicy = BindPolicyLoopbackOnly /\ ~allowPublicBind /\ isPublicBindAddr(fwd.LocalAddr)

StartValidationError_NoPorts(fwd) ==
    IF ~validateForwardSpec(fwd) THEN "invalid forward specification"
    ELSE IF BindRejected(fwd) THEN "public bind rejected by security policy"
    ELSE ""

\* the error of the validation at the head of Start, "" when the forward passes
StartValidationError(fwd) ==
    IF ~ValidatePort(fwd.LocalPort) THEN "invalid local port"
    ELSE IF ~ValidatePort(fwd.RemotePort) THEN "invalid remote port"
    ELSE IF ~validateForwardSpec(fwd) THEN "invalid forward specification"
    ELSE IF BindRejected(fwd) THEN "public bind rejected by security policy"
    ELSE ""

\* Start, up to the first mu.Lock: validation, reading the override unlocked
StartValidate(t, host, fwd, op, todo) ==
    th' = [th EXCEPT ![t] =
          IF StartValidationError(fwd) # ""
          THEN [Idle EXCEPT !.pc = "s_ret", !.op = op, !.host = host, !.fwd = fwd, !.todo = todo,
                            !.err = StartValidationError(fwd)]
          ELSE [Idle EXCEPT !.pc = "s_lock", !.op = op, !.host = host, !.fwd = fwd, !.todo = todo,
                            !.id = RuntimeID(host, fwd)]]

StartCall(t, host, fwd) ==
    /\ Enter(t)
    /\ StartValidate(t, host, fwd, "Start", {})
    /\ UNCHANGED mgrVars /\ UNCHANGED osVars /\ UNCHANGED policyVars
    /\ UNCHANGED probeVars
    /\ UNCHANGED journalVars
    /\ UNCHANGED auxVars

AlreadyUp_Never(id) == FALSE

AlreadyUp(id) == runtime[id].State = "up"

SeedRecord_NoStartedAt(host, fwd, now) ==
    [HostAlias |-> host, Forward |-> fwd, State |-> "starting", PID |-> 0, StartedAt |-> 0, LastError |-> ""]

SeedRecord(host, fwd, now) ==
    [HostAlias |-> host, Forward |-> fwd, State |-> "starting", PID |-> 0, StartedAt |-> now, LastError |-> ""]

\* Start, first critical section: idempotence check, then seed the entry
StartSeed(t) ==
    /\ th[t].pc = "s_lock"
    /\ IF AlreadyUp(th[t].id)
       THEN /\ th' = [th EXCEPT ![t].pc = "s_ret", ![t].rt = runtime[th[t].id]]
            /\ UNCHANGED <<runtime, cancel, nextGen>>
            /\ UNCHANGED journalVars
       ELSE /\ Commit(t, th[t].id, "start_requested")
            /\ nextGen < MaxStarts
            /\ nextGen' = nextGen + 1
            /\ runtime' = [runtime EXCEPT ![th[t].id] = SeedRecord(th[t].host, th[t].fwd, nextGen')]
            /\ cancel' = [cancel EXCEPT ![th[t].id] = nextGen']
            /\ th' = [th EXCEPT ![t].pc = "s_launch", ![t].gen = nextGen',
                                ![t].rt = SeedRecord(th[t].host, th[t].fwd, nextGen')]
    /\ UNCHANGED <<bindPolicy, allowPublicBind, cancelled, ops>>
    /\ UNCHANGED osVars /\ UNCHANGED policyVars
    /\ UNCHANGED probeVars
    /\ UNCHANGED auxVars

\* the launcher call, made with the mutex released
StartTunnel(t) ==
    /\ th[t].pc = "s_launch" /\ Ready(t)
    /\ \/ \* the child is spawned
          /\ th[t].gen \notin cancelled
          /\ procs' = [procs EXCEPT ![th[t].gen] = [id |-> th[t].id, status |-> "running", err |-> FALSE]]
          /\ th' = [th EXCEPT ![t].pc = "s_ok"]
       \/ \* the launcher fails
          /\ \E e \in LaunchErrors :
                th' = [th EXCEPT ![t].pc = "s_fail",
                                 ![t].err = IF th[t].gen \in cancelled THEN ErrContextCanceled ELSE e]
          /\ UNCHANGED procs
    /\ UNCHANGED mgrVars /\ UNCHANGED <<ext, watcher, ops>> /\ UNCHANGED policyVars
    /\ UNCHANGED probeVars
    /\ UNCHANGED journalVars
    /\ UNCHANGED auxVars

FailedRecord_NoMessage(rt, err) == [rt EXCEPT !.State = "error"]

FailedRecord(rt, err) == [rt EXCEPT !.State = "error", !.LastError = UserMessage(err, TRUE)]

\* the cancel map after delete(m.cancel, id)
DeleteCancel(c, id) == [c EXCEPT ![id] = 0]

\* Start, critical section of the failure branch
StartFailed(t) ==
    /\ th[t].pc = "s_fail"
    /\ Commit(t, th[t].id, "start_failed")
    /\ runtime' = [runtime EXCEPT ![th[t].id] = FailedRecord(th[t].rt, th[t].err)]
    /\ cancel' = DeleteCancel(cancel, th[t].id)
    /\ th' = [th EXCEPT ![t].pc = "s_ret", ![t].rt = FailedRecord(th[t].rt, th[t].err),
                        ![t].err = "failed to start tunnel"]
    /\ UNCHANGED <<bindPolicy, allowPublicBind, nextGen, cancelled, ops>>
    /\ UNCHANGED osVars /\ UNCHANGED policyVars
    /\ UNCHANGED probeVars
    /\ UNCHANGED <<evFile, evRead, parsed, cfgRun>> /\ PersistCall(t)

UpRecord(rt, pid) == [rt EXCEPT !.PID = pid, !.State = "up"]

\* Start, critical section of the success branch, the spawn of the watcher
\* and the arming of the stable-window timer
StartSucceeded(t) ==
    /\ th[t].pc = "s_ok"
    /\ Commit(t, th[t].id, "start_succeeded")
    /\ runtime' = [runtime EXCEPT ![th[t].id] = UpRecord(th[t].rt, th[t].gen)]
    /\ watcher' = [watcher EXCEPT ![th[t].gen] = "waiting"]
    /\ resetTimer' = IF restartEnabled THEN resetTimer \cup {th[t].gen} ELSE resetTimer
    /\ th' = [th EXCEPT ![t].pc = "s_get", ![t].rt = UpRecord(th[t].rt, th[t].gen)]
    /\ UNCHANGED <<cancel, bindPolicy, allowPublicBind, nextGen, cancelled, procs, ext, ops>>
    /\ UNCHANGED <<restartEnabled, restartAttempts, restartStats>>
    /\ UNCHANGED probeVars
    /\ UNCHANGED <<evFile, evRead, parsed, cfgRun>> /\ PersistCall(t)

\* Start, success branch: return m.Get(id) rereads the entry under the lock
StartGet(t) ==
    /\ th[t].pc = "s_get" /\ Ready(t)
    /\ th' = [th EXCEPT ![t].pc = "s_ret",
                        ![t].rt = IF Has(th[t].id) THEN runtime[th[t].id] ELSE NoEntry,
                        ![t].err = IF Has(th[t].id) THEN "" ELSE "not found"]
    /\ UNCHANGED mgrVars /\ UNCHANGED osVars /\ UNCHANGED ops /\ UNCHANGED policyVars
    /\ UNCHANGED probeVars
    /\ UNCHANGED journalVars
    /\ UNCHANGED auxVars

\* the statistics after a Start made by the restart scheduler has returned
StatsAfterStart(t) ==
    IF th[t].op = "AutoRestart" /\ th[t].id # NoId
    THEN [restartStats EXCEPT ![th[t].id] =
            IF th[t].err = "" THEN [@ EXCEPT !.Successes = @ + 1] ELSE [@ EXCEPT !.Failures = @ + 1]]
    ELSE restartStats

\* where the caller of Start goes on: RecoverByHost has further entries to recover
AfterStart(t) ==
    IF th[t].todo = {} THEN Idle
    ELSE [Idle EXCEPT !.pc = "rc_lock", !.op = th[t].op, !.todo = th[t].todo]

\* Start returns (th[t].rt, th[t].err): the deferred clear of the override runs
StartReturn(t) ==
    /\ th[t].pc = "s_ret" /\ Ready(t)
    /\ allowPublicBind' = FALSE
    /\ restartStats' = StatsAfterStart(t)
    /\ th' = [th EXCEPT ![t] = AfterStart(t)]
    /\ UNCHANGED <<runtime, cancel, bindPolicy, nextGen, cancelled, ops>>
    /\ UNCHANGED osVars /\ UNCHANGED <<restartEnabled, restartAttempts, resetTimer>>
    /\ UNCHANGED probeVars
    /\ UNCHANGED journalVars
    /\ UNCHANGED auxVars

(* ---------------- child processes and watchProcess ---------------- *)

\* a running child exits on its own, with or without an error status
ProcExit(g, failed) ==
    /\ procs[g].status = "running"
    /\ procs' = [procs EXCEPT ![g].status = "dead", ![g].err = failed]
    /\ UNCHANGED mgrVars /\ UNCHANGED <<ext, watcher, th, ops>> /\ UNCHANGED policyVars
    /\ UNCHANGED probeVars
    /\ UNCHANGED journalVars
    /\ UNCHANGED auxVars

Unexpected_Never(rt) == FALSE

\* the watcher's reading of the entry: anything but stopping is an unexpected exit
Unexpected(rt) == rt.State # "stopping"

ExitedRecord(rt, failed) ==
    IF Unexpected(rt)
    THEN IF failed THEN [rt EXCEPT !.State = "error", !.LastError = UserMessage(ErrExit, TRUE)]
         ELSE [rt EXCEPT !.State = "down"]
    ELSE rt

\* watchProcess: Cmd.Wait() has returned; the critical section.  After an
\* unexpected exit the watcher goes on to consult the restart policy.
watchProcess(g) ==
    /\ watcher[g] = "waiting"
    /\ procs[g].status = "dead"
    /\ IF Unexpected(runtime[procs[g].id])
       THEN Commit(WatcherTask(g), procs[g].id, "unexpected_exit")
       ELSE UNCHANGED journalVars
    /\ procs' = [procs EXCEPT ![g].status = "reaped"]
    /\ runtime' = [runtime EXCEPT ![procs[g].id] = ExitedRecord(runtime[procs[g].id], procs[g].err)]
    /\ cancel' = DeleteCancel(cancel, procs[g].id)
    /\ watcher' = [watcher EXCEPT ![g] =
          IF Unexpected(runtime[procs[g].id]) /\ restartEnabled THEN "consult" ELSE "done"]
    /\ UNCHANGED <<bindPolicy, allowPublicBind, nextGen, cancelled, ext, th, ops>>
    /\ UNCHANGED policyVars
    /\ UNCHANGED probeVars
    /\ UNCHANGED <<evFile, evRead, parsed, cfgRun>> /\ PersistCall(WatcherTask(g))

(* ---------------- restart policy ---------------- *)

QuarantinedRecord(rt) == [rt EXCEPT !.State = "quarantined", !.PID = 0]

\* the watcher consults the restart policy: quarantine at budget exhaustion,
\* else count the attempt and arm the backoff timer
RestartConsult(g) ==
    /\ watcher[g] = "consult" /\ Ready(WatcherTask(g))
    /\ IF restartAttempts[procs[g].id] >= RestartMaxAttempts
       THEN /\ runtime' = [runtime EXCEPT ![procs[g].id] = QuarantinedRecord(@)]
            /\ restartStats' = [restartStats EXCEPT ![procs[g].id].Failures = @ + 1]
            /\ watcher' = [watcher EXCEPT ![g] = "done"]
            /\ UNCHANGED restartAttempts
       ELSE /\ restartAttempts' = [restartAttempts EXCEPT ![procs[g].id] = @ + 1]
            /\ restartStats' = [restartStats EXCEPT ![procs[g].id].Attempts = @ + 1]
            /\ watcher' = [watcher EXCEPT ![g] = "backoff"]
            /\ UNCHANGED runtime
    /\ UNCHANGED <<cancel, bindPolicy, allowPublicBind, nextGen, cancelled, procs, ext, th, ops>>
    /\ UNCHANGED <<restartEnabled, resetTimer>>
    /\ UNCHANGED probeVars
    /\ UNCHANGED journalVars
    /\ UNCHANGED auxVars

forwardFromRuntime_NoRehydrate(id) == runtime[id].Forward

\* the forward of an entry, rebuilt from its endpoint strings when unset
forwardFromRuntime(id) ==
    IF runtime[id].Forward.LocalPort > 0 /\ runtime[id].Forward.RemotePort > 0
    THEN runtime[id].Forward
    ELSE ParseForwardArg(LocalOf(id) \o ":" \o RemoteOf(id)).fwd

\* the backoff has elapsed: the scheduler goroutine t invokes Start
RestartFire(t, g) ==
    /\ watcher[g] = "backoff"
    /\ Enter(t)
    /\ watcher' = [watcher EXCEPT ![g] = "done"]
    /\ StartValidate(t, runtime[procs[g].id].HostAlias, forwardFromRuntime(procs[g].id), "AutoRestart", {})
    /\ UNCHANGED mgrVars /\ UNCHANGED <<procs, ext>> /\ UNCHANGED policyVars
    /\ UNCHANGED probeVars
    /\ UNCHANGED journalVars
    /\ UNCHANGED auxVars

\* the stable window has elapsed: reset the counter if started-at is unchanged
ResetFire(g) ==
    /\ g \in resetTimer
    /\ resetTimer' = resetTimer \ {g}
    /\ restartAttempts' = IF runtime[procs[g].id].StartedAt = g
                          THEN [restartAttempts EXCEPT ![procs[g].id] = 0]
                          ELSE restartAttempts
    /\ UNCHANGED mgrVars /\ UNCHANGED osVars /\ UNCHANGED <<th, ops, restartEnabled, restartStats>>
    /\ UNCHANGED probeVars
    /\ UNCHANGED journalVars
    /\ UNCHANGED auxVars

(* ---------------- Stop, StopByHost, StopAll ---------------- *)

\* Stop, first critical section: mark the entry stopping, fetch the cancel handle
StopMark(t) ==
    /\ th[t].pc = "st_lock" /\ Ready(t)
    /\ \E id \in th[t].todo :
          IF ~Has(id)
          THEN /\ th' = [th EXCEPT ![t] = Idle]
               /\ UNCHANGED runtime
          ELSE /\ runtime' = [runtime EXCEPT ![id].State = "stopping"]
               /\ th' = [th EXCEPT ![t].pc = "st_signal", ![t].id = id, ![t].todo = th[t].todo \ {id},
                                   ![t].rt = [runtime[id] EXCEPT !.State = "stopping"],
                                   ![t].gen = cancel[id]]
    /\ UNCHANGED <<cancel, bindPolicy, allowPublicBind, nextGen, cancelled, ops>>
    /\ UNCHANGED osVars /\ UNCHANGED policyVars
    /\ UNCHANGED probeVars
    /\ UNCHANGED journalVars
    /\ UNCHANGED auxVars

\* Stop, unlocked: cancel the context, then SIGTERM the recorded PID if alive
StopSignal(t) ==
    /\ th[t].pc = "st_signal"
    /\ cancelled' = IF th[t].gen # 0 THEN cancelled \cup {th[t].gen} ELSE cancelled
    /\ procs' = LET afterCancel == IF th[t].gen # 0 THEN Kill(procs, th[t].gen) ELSE procs IN
                IF th[t].rt.PID > 0 /\ processAlive(th[t].rt.PID)
                THEN Kill(afterCancel, th[t].rt.PID)
                ELSE afterCancel
    /\ ext' = [id \in Ids |-> IF th[t].rt.PID > 0 /\ processAlive(th[t].rt.PID) /\ ExtPidOf(id) = th[t].rt.PID
                              THEN "dead" ELSE ext[id]]
    /\ th' = [th EXCEPT ![t].pc = "st_final"]
    /\ UNCHANGED <<runtime, cancel, bindPolicy, allowPublicBind, nextGen, watcher, ops>>
    /\ UNCHANGED policyVars
    /\ UNCHANGED probeVars
    /\ UNCHANGED journalVars
    /\ UNCHANGED auxVars

StoppedRecord_PidKept(rt) == [rt EXCEPT !.State = "down"]

StoppedRecord(rt) == [rt EXCEPT !.State = "down", !.PID = 0]

\* Stop, second critical section: finalize to down, drop the cancel handle
StopFinalize(t) ==
    /\ th[t].pc = "st_final"
    /\ Commit(t, th[t].id, "stop_succeeded")
    /\ runtime' = [runtime EXCEPT ![th[t].id] = StoppedRecord(th[t].rt)]
    /\ cancel' = DeleteCancel(cancel, th[t].id)
    /\ th' = [th EXCEPT ![t] = IF th[t].todo = {} THEN Idle
                                 ELSE [Idle EXCEPT !.pc = "st_lock", !.op = th[t].op, !.todo = th[t].todo]]
    /\ UNCHANGED <<bindPolicy, allowPublicBind, nextGen, cancelled, ops>>
    /\ UNCHANGED osVars /\ UNCHANGED policyVars
    /\ UNCHANGED probeVars
    /\ UNCHANGED <<evFile, evRead, parsed, cfgRun>> /\ PersistCall(t)

Stop(t, id) ==
    /\ Enter(t)
    /\ th' = [th EXCEPT ![t] = [Idle EXCEPT !.pc = "st_lock", !.op = "Stop", !.todo = {id}]]
    /\ UNCHANGED mgrVars /\ UNCHANGED osVars /\ UNCHANGED policyVars
    /\ UNCHANGED probeVars
    /\ UNCHANGED journalVars
    /\ UNCHANGED auxVars

ActiveForHost_AnyState(hostAlias) ==
    {id \in Ids : Has(id) /\ runtime[id].HostAlias = hostAlias}

\* the entries StopByHost collects under the lock
ActiveForHost(hostAlias) ==
    {id \in Ids : Has(id) /\ runtime[id].HostAlias = hostAlias
                  /\ runtime[id].State \in {"up", "starting", "error"}}

\* StopByHost: the scan under the lock; an error when nothing was collected
StopByHost(t, hostAlias) ==
    /\ Enter(t)
    /\ th' = [th EXCEPT ![t] =
          IF ActiveForHost(hostAlias) = {}
          THEN [Idle EXCEPT !.pc = "sb_ret", !.op = "StopByHost", !.host = hostAlias,
                            !.err = "no active tunnel for host"]
          ELSE [Idle EXCEPT !.pc = "st_lock", !.op = "StopByHost", !.host = hostAlias,
                            !.todo = ActiveForHost(hostAlias)]]
    /\ UNCHANGED mgrVars /\ UNCHANGED osVars /\ UNCHANGED policyVars
    /\ UNCHANGED probeVars
    /\ UNCHANGED journalVars
    /\ UNCHANGED auxVars

\* the caller has taken the error of a StopByHost that found nothing to stop
StopByHostReturn(t) ==
    /\ th[t].pc = "sb_ret"
    /\ th' = [th EXCEPT ![t] = Idle]
    /\ UNCHANGED mgrVars /\ UNCHANGED osVars /\ UNCHANGED ops /\ UNCHANGED policyVars
    /\ UNCHANGED probeVars
    /\ UNCHANGED journalVars
    /\ UNCHANGED auxVars

StopAll(t) ==
    /\ Enter(t)
    /\ th' = [th EXCEPT ![t] =
          IF {id \in Ids : Has(id)} = {} THEN Idle
          ELSE [Idle EXCEPT !.pc = "st_lock", !.op = "StopAll", !.todo = {id \in Ids : Has(id)}]]
    /\ UNCHANGED mgrVars /\ UNCHANGED osVars /\ UNCHANGED policyVars
    /\ UNCHANGED probeVars
    /\ UNCHANGED journalVars
    /\ UNCHANGED auxVars

(* ---------------- Get ---------------- *)

\* Get: a copy of the entry, read under the lock
Get(t, id) ==
    /\ Enter(t)
    /\ th' = [th EXCEPT ![t] = [Idle EXCEPT !.pc = "g_ret", !.op = "Get", !.id = id,
                                            !.rt = runtime[id],
                                            !.err = IF Has(id) THEN "" ELSE "not found"]]
    /\ UNCHANGED mgrVars /\ UNCHANGED osVars /\ UNCHANGED policyVars
    /\ UNCHANGED probeVars
    /\ UNCHANGED journalVars
    /\ UNCHANGED auxVars

\* the caller has taken the result of Get
GetReturn(t) ==
    /\ th[t].pc = "g_ret"
    /\ th' = [th EXCEPT ![t] = Idle]
    /\ UNCHANGED mgrVars /\ UNCHANGED osVars /\ UNCHANGED ops /\ UNCHANGED policyVars
    /\ UNCHANGED probeVars
    /\ UNCHANGED journalVars
    /\ UNCHANGED auxVars

(* ---------------- Snapshot ---------------- *)

\* what a probe can report: the dial failed, or it took so many milliseconds
ProbeOutcomes == {[err |-> TRUE, latencyMS |-> 0], [err |-> FALSE, latencyMS |-> 0], [err |-> FALSE, latencyMS |-> 7]}

ResultsCapacity_Unbuffered(out) == 0

\* make(chan probeResult, len(out))
ResultsCapacity(out) == Cardinality({id \in Ids : out[id].State # "absent"})

\* Snapshot, up to the collection loop: the entries are copied under the lock,
\* the channel is made, one probe goroutine is launched per up entry and the
\* deadline timer is armed
Snapshot(t) ==
    /\ Enter(t)
    /\ LET out == [id \in Ids |-> IF Has(id) THEN OutRecord(runtime[id], nextGen) ELSE NoOut]
           up == {id \in Ids : out[id].State = "up"}
       IN /\ results' = [results EXCEPT ![ops + 1] = [cap |-> ResultsCapacity(out), buf |-> <<>>]]
          /\ probes' = [probes EXCEPT ![ops + 1] =
                [id \in Ids |-> IF id \in up THEN [NoProbe EXCEPT !.st = "dialing"] ELSE NoProbe]]
          /\ th' = [th EXCEPT ![t] = [Idle EXCEPT !.pc = IF up = {} THEN "sn_ret" ELSE "sn_collect",
                                                  !.op = "Snapshot", !.out = out,
                                                  !.expected = Cardinality(up), !.call = ops + 1]]
    /\ UNCHANGED mgrVars /\ UNCHANGED osVars /\ UNCHANGED policyVars
    /\ UNCHANGED journalVars
    /\ UNCHANGED auxVars

\* a probe goroutine: net.DialTimeout has returned
ProbeDial(c, id, r) ==
    /\ probes[c][id].st = "dialing"
    /\ probes' = [probes EXCEPT ![c][id] = [st |-> "sending", latencyMS |-> r.latencyMS, err |-> r.err]]
    /\ UNCHANGED mgrVars /\ UNCHANGED osVars /\ UNCHANGED policyVars /\ UNCHANGED <<th, ops, results>>
    /\ UNCHANGED journalVars
    /\ UNCHANGED auxVars

\* a probe goroutine: results <- probeResult{...}, then the goroutine ends
ProbeSend(c, id) ==
    /\ probes[c][id].st = "sending"
    /\ Len(results[c].buf) < results[c].cap
    /\ results' = [results EXCEPT ![c].buf =
          Append(@, [index |-> id, latencyMS |-> probes[c][id].latencyMS, err |-> probes[c][id].err])]
    /\ probes' = [probes EXCEPT ![c][id].st = "done"]
    /\ UNCHANGED mgrVars /\ UNCHANGED osVars /\ UNCHANGED policyVars /\ UNCHANGED <<th, ops>>
    /\ UNCHANGED journalVars
    /\ UNCHANGED auxVars

\* the collection loop, case result := <-results
SnapshotReceive(t) ==
    /\ th[t].pc = "sn_collect"
    /\ th[t].collected < th[t].expected
    /\ results[th[t].call].buf # <<>>
    /\ LET result == Head(results[th[t].call].buf)
       IN th' = [th EXCEPT ![t].out = IF result.err THEN @
                                      ELSE [@ EXCEPT ![result.index].LatencyMS = result.latencyMS],
                           ![t].collected = @ + 1,
                           ![t].pc = IF th[t].collected + 1 < th[t].expected THEN "sn_collect" ELSE "sn_ret"]
    /\ results' = [results EXCEPT ![th[t].call].buf = Tail(@)]
    /\ UNCHANGED mgrVars /\ UNCHANGED osVars /\ UNCHANGED policyVars /\ UNCHANGED <<ops, probes>>
    /\ UNCHANGED journalVars
    /\ UNCHANGED auxVars

\* the collection loop, case <-timeout: goto done
SnapshotTimeout(t) ==
    /\ th[t].pc = "sn_collect"
    /\ th[t].collected < th[t].expected
    /\ th' = [th EXCEPT ![t].pc = "sn_ret"]
    /\ UNCHANGED mgrVars /\ UNCHANGED osVars /\ UNCHANGED policyVars /\ UNCHANGED <<ops, results, probes>>
    /\ UNCHANGED journalVars
    /\ UNCHANGED auxVars

OutAliasesRuntime_Pointers == TRUE

\* out holds model.TunnelRuntime values appended from the range variable
OutAliasesRuntime == FALSE

\* the caller of Snapshot changes a record of the slice it was given
SnapshotCallerEdit(t, id) ==
    /\ th[t].pc = "sn_ret"
    /\ th[t].out[id].State \notin {"absent", "edited"}
    /\ th' = [th EXCEPT ![t].out[id].State = "edited"]
    /\ runtime' = IF OutAliasesRuntime THEN [runtime EXCEPT ![id].State = "edited"] ELSE runtime
    /\ UNCHANGED <<cancel, bindPolicy, allowPublicBind, nextGen, cancelled, ops>>
    /\ UNCHANGED osVars /\ UNCHANGED policyVars /\ UNCHANGED probeVars
    /\ UNCHANGED journalVars
    /\ UNCHANGED auxVars

\* the caller is done with the slice
SnapshotReturn(t) ==
    /\ th[t].pc = "sn_ret"
    /\ th' = [th EXCEPT ![t] = Idle]
    /\ UNCHANGED mgrVars /\ UNCHANGED osVars /\ UNCHANGED policyVars /\ UNCHANGED <<ops, results, probes>>
    /\ UNCHANGED journalVars
    /\ UNCHANGED auxVars

(* ---------------- Recover, RecoverByHost, Reconcile ---------------- *)

\* the error of Recover(id) for an entry that cannot be recovered, "" otherwise
RecoverError(id) ==
    IF ~Has(id) THEN "tunnel not found"
    ELSE IF runtime[id].State # "quarantined" THEN "tunnel is not quarantined"
    ELSE ""

\* Recover(id), critical section: only a quarantined entry is recovered; the
\* restart counter is reset and Start is run for the entry's forward.
\* RecoverByHost passes over an entry that is no longer quarantined.
RecoverLocked(t) ==
    /\ th[t].pc = "rc_lock"
    /\ \E id \in th[t].todo :
          IF RecoverError(id) # ""
          THEN /\ th' = [th EXCEPT ![t] =
                     IF th[t].op = "Recover"
                     THEN [Idle EXCEPT !.pc = "rc_ret", !.op = th[t].op, !.id = id, !.err = RecoverError(id)]
                     ELSE IF th[t].todo = {id} THEN Idle
                     ELSE [Idle EXCEPT !.pc = "rc_lock", !.op = th[t].op, !.todo = th[t].todo \ {id}]]
               /\ UNCHANGED restartAttempts
          ELSE /\ restartAttempts' = [restartAttempts EXCEPT ![id] = 0]
               /\ StartValidate(t, runtime[id].HostAlias, forwardFromRuntime(id), th[t].op, th[t].todo \ {id})
    /\ UNCHANGED mgrVars /\ UNCHANGED osVars /\ UNCHANGED <<ops, restartEnabled, restartStats, resetTimer>>
    /\ UNCHANGED probeVars
    /\ UNCHANGED journalVars
    /\ UNCHANGED auxVars

Recover(t, id) ==
    /\ Enter(t)
    /\ th' = [th EXCEPT ![t] = [Idle EXCEPT !.pc = "rc_lock", !.op = "Recover", !.todo = {id}]]
    /\ UNCHANGED mgrVars /\ UNCHANGED osVars /\ UNCHANGED policyVars
    /\ UNCHANGED probeVars
    /\ UNCHANGED journalVars
    /\ UNCHANGED auxVars

QuarantinedForHost_Any(hostAlias) ==
    {id \in Ids : Has(id) /\ runtime[id].HostAlias = hostAlias}

QuarantinedForHost(hostAlias) ==
    {id \in Ids : runtime[id].State = "quarantined" /\ runtime[id].HostAlias = hostAlias}

\* RecoverByHost(alias): the quarantined entries of the alias are collected
\* under the lock; none is an error
RecoverByHost(t, hostAlias) ==
    /\ Enter(t)
    /\ th' = [th EXCEPT ![t] =
          IF QuarantinedForHost(hostAlias) = {}
          THEN [Idle EXCEPT !.pc = "rc_ret", !.op = "RecoverByHost", !.host = hostAlias,
                            !.err = "no quarantined tunnel for host"]
          ELSE [Idle EXCEPT !.pc = "rc_lock", !.op = "RecoverByHost", !.host = hostAlias,
                            !.todo = QuarantinedForHost(hostAlias)]]
    /\ UNCHANGED mgrVars /\ UNCHANGED osVars /\ UNCHANGED policyVars
    /\ UNCHANGED probeVars
    /\ UNCHANGED journalVars
    /\ UNCHANGED auxVars

\* Recover or RecoverByHost returns its error to the caller
RecoverReturn(t) ==
    /\ th[t].pc = "rc_ret"
    /\ th' = [th EXCEPT ![t] = Idle]
    /\ UNCHANGED mgrVars /\ UNCHANGED osVars /\ UNCHANGED ops /\ UNCHANGED policyVars
    /\ UNCHANGED probeVars
    /\ UNCHANGED journalVars
    /\ UNCHANGED auxVars

\* the entries Reconcile quarantines: up, in scope, with no PID or a dead process
Suspicious(hostAlias) ==
    {id \in Ids : /\ runtime[id].State = "up"
                  /\ (hostAlias = "" \/ runtime[id].HostAlias = hostAlias)
                  /\ (runtime[id].PID = 0 \/ ~processAlive(runtime[id].PID))}

\* Reconcile: one critical section; the action list names what it quarantined
Reconcile(t, hostAlias) ==
    /\ Enter(t)
    /\ runtime' = [id \in Ids |-> IF id \in Suspicious(hostAlias) THEN QuarantinedRecord(runtime[id]) ELSE runtime[id]]
    /\ th' = [th EXCEPT ![t] = [Idle EXCEPT !.pc = "rn_ret", !.op = "Reconcile", !.host = hostAlias,
                                            !.todo = Suspicious(hostAlias)]]
    /\ UNCHANGED <<cancel, bindPolicy, allowPublicBind, nextGen, cancelled>>
    /\ UNCHANGED osVars /\ UNCHANGED policyVars
    /\ UNCHANGED probeVars
    /\ UNCHANGED journalVars
    /\ UNCHANGED auxVars

\* the caller has taken the action list of Reconcile
ReconcileReturn(t) ==
    /\ th[t].pc = "rn_ret"
    /\ th' = [th EXCEPT ![t] = Idle]
    /\ UNCHANGED mgrVars /\ UNCHANGED osVars /\ UNCHANGED ops /\ UNCHANGED policyVars
    /\ UNCHANGED probeVars
    /\ UNCHANGED journalVars
    /\ UNCHANGED auxVars

(* ---------------- Preflight ---------------- *)

\* the local port of the forward is bound by a live child of this manager or
\* of an earlier session
PortInUse(fwd) ==
    \/ \E g \in Gens : procs[g].status = "running" /\ procs[g].id[3] = fwd.LocalPort
    \/ \E id \in Ids : ext[id] \in AliveOs /\ id[3] = fwd.LocalPort

\* the checks Preflight makes without touching the network
StaticFindings(fwd, hostKnown) ==
    {c \in {"port", "address", "bind-policy", "host"} :
        \/ c = "port" /\ ~(ValidatePort(fwd.LocalPort) /\ ValidatePort(fwd.RemotePort))
        \/ c = "address" /\ ~validateForwardSpec(fwd)
        \/ c = "bind-policy" /\ BindRejected(fwd)
        \/ c = "host" /\ ~hostKnown}

\* Preflight: the checks on the forward, the policy and the configuration
Preflight(t, host, fwd, hostKnown) ==
    /\ Enter(t)
    /\ th' = [th EXCEPT ![t] = [Idle EXCEPT !.pc = "pf_listen", !.op = "Preflight", !.host = host,
                                            !.fwd = fwd, !.findings = StaticFindings(fwd, hostKnown)]]
    /\ UNCHANGED mgrVars /\ UNCHANGED osVars /\ UNCHANGED policyVars
    /\ UNCHANGED probeVars
    /\ UNCHANGED journalVars
    /\ UNCHANGED auxVars

\* Preflight listens on the local endpoint and closes the listener at once
PreflightListen(t) ==
    /\ th[t].pc = "pf_listen"
    /\ th' = [th EXCEPT ![t].pc = "pf_ret",
                        ![t].findings = IF PortInUse(th[t].fwd) THEN @ \cup {"port-in-use"} ELSE @]
    /\ UNCHANGED mgrVars /\ UNCHANGED osVars /\ UNCHANGED ops /\ UNCHANGED policyVars
    /\ UNCHANGED probeVars
    /\ UNCHANGED journalVars
    /\ UNCHANGED auxVars

OverrideAfterPreflight_Consumed(allow) == FALSE

\* the one-shot override as Preflight leaves it
OverrideAfterPreflight(allow) == allow

\* Preflight returns its report: OK exactly when no check failed
PreflightReturn(t) ==
    /\ th[t].pc = "pf_ret"
    /\ allowPublicBind' = OverrideAfterPreflight(allowPublicBind)
    /\ th' = [th EXCEPT ![t] = Idle]
    /\ UNCHANGED <<runtime, cancel, bindPolicy, nextGen, cancelled, ops>>
    /\ UNCHANGED osVars /\ UNCHANGED policyVars
    /\ UNCHANGED probeVars
    /\ UNCHANGED journalVars
    /\ UNCHANGED auxVars

(* ---------------- event store: Append and Read ---------------- *)

\* the events the supervisor appends; Timestamp 0 is the zero time
EvRequested == [Timestamp |-> 1, TunnelID |-> "a", HostAlias |-> "api", EventType |-> "start_requested"]
EvSucceeded == [Timestamp |-> 2, TunnelID |-> "a", HostAlias |-> "api", EventType |-> "start_succeeded"]
EvFailed == [Timestamp |-> 0, TunnelID |-> "b", HostAlias |-> "db", EventType |-> "start_failed"]
ZeroEvent == [Timestamp |-> 0, TunnelID |-> "", HostAlias |-> "", EventType |-> ""]
EventsIn == {EvRequested, EvSucceeded, EvFailed}

\* a line of the file: the JSON object of an event, text that is not JSON, a
\* blank line, or a line longer than the buffer of bufio.Scanner
JsonLine(evt) == [kind |-> "json", evt |-> evt]
ForeignLines == {[kind |-> k, evt |-> ZeroEvent] : k \in {"garbage", "blank", "long"}} \cup {JsonLine(ZeroEvent)}

\* json.Unmarshal of a scanned line
Unmarshal(line) == [ok |-> line.kind = "json", evt |-> line.evt]

\* the queries of the callers
Queries ==
    {NoQuery,
     [NoQuery EXCEPT !.HostAlias = "api"],
     [NoQuery EXCEPT !.HostAlias = " ", !.Limit = 1],
     [NoQuery EXCEPT !.TunnelID = "a", !.Limit = 1],
     [NoQuery EXCEPT !.EventType = "start_failed"],
     [NoQuery EXCEPT !.Since = 2],
     [NoQuery EXCEPT !.Since = 2, !.Limit = 2],
     [NoQuery EXCEPT !.HostAlias = "api", !.TunnelID = "a", !.EventType = "start_succeeded", !.Since = 1, !.Limit = 2],
     [NoQuery EXCEPT !.Limit = 2],
     [NoQuery EXCEPT !.Limit = 0 - 1]}

\* Store.Append: the zero timestamp becomes the current time, then one line
\* is written at the end of the file
StoreAppendCall(evt, now) ==
    /\ evRead.pc = "idle" /\ Len(evFile) < MaxLines
    /\ evFile' = StoreAppend(evFile, JsonLine(IF evt.Timestamp = 0 THEN [evt EXCEPT !.Timestamp = now] ELSE evt))
    /\ UNCHANGED evRead
    /\ UNCHANGED mainVars /\ UNCHANGED <<parsed, cfgRun>> /\ UNCHANGED persistVars

\* a line that Append did not write ends up in the file
ForeignWrite(line) ==
    /\ evRead.pc = "idle" /\ Len(evFile) < MaxLines
    /\ evFile' = Append(evFile, line)
    /\ UNCHANGED evRead
    /\ UNCHANGED mainVars /\ UNCHANGED <<parsed, cfgRun>> /\ UNCHANGED persistVars

matches_NoSince(evt, q) ==
    /\ ~(TrimSpace(q.HostAlias) # "" /\ evt.HostAlias # q.HostAlias)
    /\ ~(TrimSpace(q.TunnelID) # "" /\ evt.TunnelID # q.TunnelID)
    /\ ~(TrimSpace(q.EventType) # "" /\ evt.EventType # q.EventType)

matches(evt, q) ==
    /\ ~(TrimSpace(q.HostAlias) # "" /\ evt.HostAlias # q.HostAlias)
    /\ ~(TrimSpace(q.TunnelID) # "" /\ evt.TunnelID # q.TunnelID)
    /\ ~(TrimSpace(q.EventType) # "" /\ evt.EventType # q.EventType)
    /\ ~(q.Since # 0 /\ evt.Timestamp < q.Since)

\* Store.Read: the file is opened for reading; a missing file reads as empty
StoreRead(q) ==
    /\ evRead.pc = "idle"
    /\ evRead' = [NoRead EXCEPT !.pc = "scan", !.q = q]
    /\ UNCHANGED evFile
    /\ UNCHANGED mainVars /\ UNCHANGED <<parsed, cfgRun>> /\ UNCHANGED persistVars

\* out after one more matching event, cut to the last Limit events
Window(out, evt, limit) ==
    LET o == Append(out, evt) IN
    IF limit > 0 /\ Len(o) > limit THEN SubSeq(o, Len(o) - limit + 1, Len(o)) ELSE o

\* one turn of the scanner loop, or its end
ReadScan ==
    /\ evRead.pc = "scan"
    /\ evRead' =
          IF evRead.pos = Len(evFile) THEN [evRead EXCEPT !.pc = "done"]
          ELSE LET line == evFile[evRead.pos + 1] IN
               IF line.kind = "long"
               THEN [evRead EXCEPT !.pc = "done", !.out = <<>>, !.err = "scan events: bufio.Scanner: token too long"]
               ELSE IF line.kind = "blank" \/ ~Unmarshal(line).ok \/ ~matches(Unmarshal(line).evt, evRead.q)
               THEN [evRead EXCEPT !.pos = @ + 1]
               ELSE [evRead EXCEPT !.pos = @ + 1, !.out = Window(@, Unmarshal(line).evt, evRead.q.Limit)]
    /\ UNCHANGED evFile
    /\ UNCHANGED mainVars /\ UNCHANGED <<parsed, cfgRun>> /\ UNCHANGED persistVars

\* the caller has taken (out, err)
ReadReturn ==
    /\ evRead.pc = "done"
    /\ evRead' = NoRead
    /\ UNCHANGED evFile
    /\ UNCHANGED mainVars /\ UNCHANGED <<parsed, cfgRun>> /\ UNCHANGED persistVars

(* ---------------- specifications ---------------- *)

Hosts == {in[1] : in \in StartInputs}
IdApi == RuntimeID("api", FwdLoop)

\* the steps inside Start, and those of the children and their watchers
StartSteps ==
    \/ \E t \in Threads : StartSeed(t)
    \/ \E t \in Threads : StartTunnel(t)
    \/ \E t \in Threads : StartFailed(t)
    \/ \E t \in Threads : StartSucceeded(t)
    \/ \E t \in Threads : StartGet(t)
    \/ \E t \in Threads : StartReturn(t)
    \/ \E g \in Gens, failed \in BOOLEAN : ProcExit(g, failed)
    \/ \E g \in Gens : watchProcess(g)

\* the steps inside Stop
StopSteps ==
    \/ \E t \in Threads : StopMark(t)
    \/ \E t \in Threads : StopSignal(t)
    \/ \E t \in Threads : StopFinalize(t)

\* the steps inside Start, Stop and the watcher, whoever made the call
Steps == StartSteps \/ StopSteps

\* Lifecycle: two goroutines start and stop one tunnel concurrently on a
\* Manager as NewManager builds it; auto-restart is off.
InitLifecycle == Init /\ ~restartEnabled /\ bindPolicy = BindPolicyLoopbackOnly /\ ~journalOn

Next ==
    \/ Steps
    \/ \E t \in Threads : FirstIdle(t) /\ StartCall(t, "api", FwdLoop)
    \/ \E t \in Threads : FirstIdle(t) /\ Stop(t, IdApi)

Spec == InitLifecycle /\ [][Next]_vars

\* Api: one goroutine uses the whole lifecycle API on every input, under
\* either bind policy; auto-restart is off.
InitApi == Init /\ ~restartEnabled /\ ~journalOn

NextApi ==
    \/ Steps
    \/ \E in \in StartInputs : StartCall(1, in[1], in[2])
    \/ \E id \in Ids : Stop(1, id)
    \/ \E allow \in BOOLEAN : SetAllowPublicBind(1, allow)
    \/ \E h \in Hosts : StopByHost(1, h)
    \/ StopByHostReturn(1)
    \/ StopAll(1)
    \/ \E id \in Ids : Get(1, id)
    \/ GetReturn(1)

SpecApi == InitApi /\ [][NextApi]_vars

\* Override: under loopback-only the override is set once, before anything
\* else (cli/root.go, tunnel up); then two goroutines start and stop tunnels.
SetOverrideOnce == ops = 0 /\ SetAllowPublicBind(1, TRUE)

NextOverride ==
    \/ Steps
    \/ SetOverrideOnce
    \/ \E t \in Threads, in \in StartInputs : FirstIdle(t) /\ StartCall(t, in[1], in[2])
    \/ \E t \in Threads, id \in Ids : FirstIdle(t) /\ Stop(t, id)

SpecOverride == InitLifecycle /\ [][NextOverride]_vars

\* Validate: one goroutine calls Start with valid and invalid forwards, under
\* either bind policy, setting and clearing the override in between.
ValidateInputs ==
    StartInputs \cup {<<"api", FwdBadRemotePort>>, <<"api", FwdBadHost>>, <<"api", FwdBadPath>>}

NextValidate ==
    \/ StartSteps
    \/ \E in \in ValidateInputs : StartCall(1, in[1], in[2])
    \/ \E allow \in BOOLEAN : SetAllowPublicBind(1, allow)

SpecValidate == InitApi /\ [][NextValidate]_vars

\* Preflight: goroutine 1 sets the override and starts tunnels while
\* goroutine 2 runs preflight checks, under either bind policy.
NextPreflight ==
    \/ StartSteps
    \/ SetOverrideOnce
    \/ \E in \in StartInputs : ops < MaxOps - 1 /\ StartCall(1, in[1], in[2])
    \/ \E in \in StartInputs, hostKnown \in BOOLEAN : Preflight(2, in[1], in[2], hostKnown)
    \/ PreflightListen(2)
    \/ PreflightReturn(2)

SpecPreflight == InitApi /\ [][NextPreflight]_vars

\* Reconcile: goroutine 1 restores a runtime file whose processes are alive,
\* the processes may exit, and it reconciles one alias or all of them.
IdDb == RuntimeID("db", FwdPublic)

NextReconcile ==
    \/ \E saved \in {{IdApi, IdDb}, {IdApi, IdApi2, IdDb}}, state \in {"up", "error"} :
          \E os \in [saved -> {"alive_match", "dead"}] :
             ops = 0 /\ LoadRuntime(1, saved, state, os)
    \/ LoadLocked(1)
    \/ \E id \in Ids : ExtExit(id)
    \/ \E h \in {"api", "db", ""} : Reconcile(1, h)
    \/ ReconcileReturn(1)

SpecReconcile == InitLifecycle /\ [][NextReconcile]_vars

\* Events: events are appended to the journal file, foreign lines get into
\* it, and between the writes the file is read under each query.
NextEvents ==
    \/ \E evt \in EventsIn, now \in {2, 3} : StoreAppendCall(evt, now)
    \/ \E line \in ForeignLines : ForeignWrite(line)
    \/ \E q \in Queries : StoreRead(q)
    \/ ReadScan
    \/ ReadReturn

SpecEvents == InitLifecycle /\ [][NextEvents]_vars

\* the runs with the restart policy begin at most MaxPolicyOps operations
PolicyCall == ops < MaxPolicyOps

\* Restart: goroutine 1 starts and stops a tunnel whose children exit, with
\* auto-restart on; goroutine 2 is the restart scheduler.
InitRestart == Init /\ restartEnabled /\ bindPolicy = BindPolicyLoopbackOnly /\ ~journalOn

NextRestart ==
    \/ Steps
    \/ \E g \in Gens : RestartConsult(g)
    \/ \E g \in Gens : PolicyCall /\ RestartFire(2, g)
    \/ \E g \in Gens : ResetFire(g)
    \/ PolicyCall /\ StartCall(1, "api", FwdLoop)
    \/ PolicyCall /\ Stop(1, IdApi)

SpecRestart == InitRestart /\ [][NextRestart]_vars

\* Quarantine: goroutine 1 restores the runtime file, reconciles, recovers,
\* starts and stops, with auto-restart on.
NextQuarantine ==
    \/ NextRestart
    \/ \E saved \in {{IdApi}, Ids \ {IdApi2}}, os \in {"alive_match", "alive_other", "dead"} :
          PolicyCall /\ LoadRuntime(1, saved, "up", [id \in saved |-> os])
    \/ LoadLocked(1)
    \/ \E id \in Ids : ExtExit(id)
    \/ PolicyCall /\ Recover(1, IdApi)
    \/ RecoverLocked(1)
    \/ RecoverReturn(1)
    \/ PolicyCall /\ RecoverByHost(1, "api")
    \/ \E h \in {"api", ""} : PolicyCall /\ Reconcile(1, h)
    \/ ReconcileReturn(1)

SpecQuarantine == InitRestart /\ [][NextQuarantine]_vars

\* Budget: one Start, then only the children, their watchers and the restart
\* policy act.  The children exit and the timers of the policy that are due
\* fire; the stable window itself may or may not elapse.
BudgetProgress ==
    \/ StartSteps
    \/ \E g \in Gens : RestartConsult(g)
    \/ \E g \in Gens : RestartFire(2, g)
    \/ ops = 0 /\ StartCall(1, "api", FwdLoop)

\* the launcher calls that follow a reset fired by the timer of generation g
\* until the budget is exhausted again stay within the generations explored
ResetWithinGens(g) ==
    \/ watcher[g] = "done"
    \/ watcher[g] = "backoff" /\ g + 1 + RestartMaxAttempts <= MaxStarts
    \/ watcher[g] \in {"none", "waiting", "consult"} /\ g + RestartMaxAttempts <= MaxStarts

NextBudget ==
    \/ BudgetProgress
    \/ \E g \in Gens : ResetWithinGens(g) /\ ResetFire(g)

SpecBudget == InitRestart /\ [][NextBudget]_vars /\ WF_vars(BudgetProgress)

\* Recover: goroutine 1 either restores a runtime file, auto-restart being
\* off, or starts one tunnel whose children exhaust the restart budget, and
\* then recovers.
InitRecover == Init /\ bindPolicy = BindPolicyLoopbackOnly /\ ~journalOn

NextRecover ==
    \/ BudgetProgress
    \/ \E g \in Gens : ResetFire(g)
    \/ \E saved \in {{IdApi}, Ids}, os \in {"alive_match", "alive_other", "dead"} :
          ~restartEnabled /\ LoadRuntime(1, saved, "up", [id \in saved |-> os])
    \/ LoadLocked(1)
    \/ \E id \in Ids : Recover(1, id)
    \/ \E h \in Hosts : RecoverByHost(1, h)
    \/ RecoverLocked(1)
    \/ RecoverReturn(1)

SpecRecover == InitRecover /\ [][NextRecover]_vars

\* Load: goroutine 1 restores a runtime file of one or two records of any
\* state, the OS holding anything under the saved PIDs, and reads the entries.
NextLoad ==
    \/ \E saved \in {{IdApi}, {IdApi, IdApi2}}, state \in TunnelStates :
          \E os \in [saved -> OsValues] : LoadRuntime(1, saved, state, os)
    \/ LoadLocked(1)
    \/ \E id \in Ids : ExtExit(id)
    \/ \E id \in {IdApi, IdApi2} : Get(1, id)
    \/ GetReturn(1)

SpecLoad == InitLifecycle /\ [][NextLoad]_vars

\* Snapshot: goroutine 1 starts and stops one tunnel, or restores two adopted
\* ones; goroutine 2 takes snapshots. The deadline timer fires and the probe
\* goroutines run (net.DialTimeout returns, the send is attempted).
SnapshotSteps ==
    \/ SnapshotReceive(2)
    \/ SnapshotTimeout(2)
    \/ \E id \in Ids : SnapshotCallerEdit(2, id)
    \/ SnapshotReturn(2)

ProbeSteps ==
    \/ \E c \in Calls, id \in Ids, r \in ProbeOutcomes : ProbeDial(c, id, r)
    \/ \E c \in Calls, id \in Ids : ProbeSend(c, id)

NextSnapshot ==
    \/ StartSteps
    \/ StopSteps
    \/ ops = 0 /\ StartCall(1, "api", FwdLoop)
    \/ LoadRuntime(1, {IdApi, IdApi2}, "up", [id \in {IdApi, IdApi2} |-> "alive_match"])
    \/ LoadLocked(1)
    \/ PolicyCall /\ Stop(1, IdApi)
    \/ PolicyCall /\ Snapshot(2)
    \/ SnapshotSteps
    \/ ProbeSteps

SpecSnapshot ==
    InitLifecycle /\ [][NextSnapshot]_vars /\ WF_vars(SnapshotTimeout(2)) /\ WF_vars(ProbeSteps)

\* Journal: goroutine 1 starts one tunnel and goroutine 2 stops it, the event
\* journal being kept; each task appends the event of a transition after it
\* has released the lock.
InitJournal == Init /\ journalOn /\ ~restartEnabled /\ bindPolicy = BindPolicyLoopbackOnly

NextJournal ==
    \/ Steps
    \/ \E k \in Tasks : EmitEvent(k)
    \/ PolicyCall /\ StartCall(1, "api", FwdLoop)
    \/ PolicyCall /\ Stop(2, IdApi)

SpecJournal == InitJournal /\ [][NextJournal]_vars

(* ---------------- properties ---------------- *)

\* the goroutines that are inside Start past its validation
InStart(t) == th[t].pc \in {"s_lock", "s_launch", "s_ok", "s_fail", "s_get"} \/ (th[t].pc = "s_ret" /\ th[t].id # NoId)

\* C1: the watcher of a child that Stop killed, running before any later Start
\* of the id, leaves the entry as Stop left it (never error, no LastError) and
\* does not go on to the restart policy.
C1_StopNotReclassified ==
    [][\A g \in Gens :
          (/\ watcher[g] = "waiting" /\ watcher'[g] # "waiting"
           /\ g \in cancelled
           /\ runtime[procs[g].id].StartedAt = g)
          => /\ runtime'[procs[g].id].State # "error"
             /\ runtime'[procs[g].id].LastError = runtime[procs[g].id].LastError
             /\ watcher'[g] # "consult"]_vars

\* C2: a step that takes an entry out of quarantined is the seeding step of a
\* Start made by Recover or RecoverByHost for that entry.
C2_QuarantinedLeftOnlyByRecover ==
    [][\A id \in Ids :
          (runtime[id].State = "quarantined" /\ runtime'[id].State # "quarantined")
          => \E t \in Threads : /\ th[t].op \in {"Recover", "RecoverByHost"}
                                /\ th[t].pc = "s_lock" /\ th[t].id = id
                                /\ th'[t].pc = "s_launch"]_vars

\* C3: a record returned by Get (directly, or as the result of Start) with a
\* nonzero PID is in state up.
C3_PidImpliesUp ==
    \A t \in Threads :
        ((th[t].pc = "g_ret" \/ (th[t].pc = "s_ret" /\ th[t].op = "Start")) /\ th[t].err = "")
        => (th[t].rt.PID # 0 => th[t].rt.State = "up")

C5_StartIdempotent ==
    [][\A t \in Threads :
          (th[t].pc = "s_lock" /\ th'[t].pc # "s_lock" /\ runtime[th[t].id].State = "up")
          => /\ runtime' = runtime /\ cancel' = cancel /\ nextGen' = nextGen
             /\ procs' = procs /\ watcher' = watcher
             /\ th'[t].pc = "s_ret" /\ th'[t].err = ""
             /\ th'[t].rt = runtime[th[t].id]]_vars

\* a Start that found its entry up is about to return it
C5_Witness ==
    \E t \in Threads : /\ th[t].pc = "s_ret" /\ th[t].op = "Start" /\ th[t].id # NoId
                        /\ th[t].gen = 0 /\ th[t].err = ""
                        /\ th[t].rt.State = "up" /\ th[t].rt.PID > 0
                        /\ th[t].rt = runtime[th[t].id]

\* C6: the failure branch of Start leaves the entry in error with a non-empty
\* LastError, PID 0, no cancel handle, no child and no watcher for the
\* attempt, and returns the entry with an error.
C6_LauncherFailure ==
    [][\A t \in Threads :
          (th[t].pc = "s_fail" /\ th'[t].pc # "s_fail")
          => /\ runtime'[th[t].id].State = "error"
             /\ runtime'[th[t].id].LastError # ""
             /\ runtime'[th[t].id].PID = 0
             /\ cancel'[th[t].id] = 0
             /\ procs'[th[t].gen].status = "none" /\ watcher'[th[t].gen] = "none"
             /\ th'[t].pc = "s_ret" /\ th'[t].err # ""
             /\ th'[t].rt = runtime'[th[t].id]]_vars

\* a Start whose launcher failed is about to return
C6_Witness ==
    \E t \in Threads : /\ th[t].pc = "s_ret" /\ th[t].gen # 0 /\ th[t].err = "failed to start tunnel"
                        /\ runtime[th[t].id].State = "error"
                        /\ runtime[th[t].id].LastError = "fork/exec ~/.ssh/[redacted]/ssh: permission denied"

\* the local addresses that are unspecified
UnspecifiedAddrs == {"0.0.0.0", "::", "[::]", "*", " 0.0.0.0 "}

\* C7: under loopback-only a forward with an unspecified local address fails
\* the validation of Start unless the override is set, and a Start of such a
\* forward then returns before the lock (no entry, no launcher); under
\* allow-public every such forward passes.
C7_PublicBindPolicy ==
    [][/\ \A a \in UnspecifiedAddrs :
            StartValidationError([FwdPublic EXCEPT !.LocalAddr = a])
               = IF bindPolicy = BindPolicyLoopbackOnly /\ ~allowPublicBind
                 THEN "public bind rejected by security policy" ELSE ""
       /\ \A t \in Threads :
            (th[t].pc = "idle" /\ th'[t].op = "Start" /\ th'[t].fwd.LocalAddr \in UnspecifiedAddrs)
            => IF bindPolicy = BindPolicyLoopbackOnly /\ ~allowPublicBind
               THEN th'[t].pc = "s_ret" /\ th'[t].err # "" /\ th'[t].id = NoId /\ runtime' = runtime
               ELSE th'[t].pc = "s_lock" /\ th'[t].err = ""]_vars

\* a Start of a public forward was rejected under loopback-only
C7_Witness ==
    \E t \in Threads : /\ bindPolicy = BindPolicyLoopbackOnly
                        /\ th[t].pc = "s_ret" /\ th[t].fwd = FwdPublic
                        /\ th[t].err = "public bind rejected by security policy"

\* C8: the override having been set once, at most one Start of a forward with
\* an unspecified local address gets past the validation under loopback-only.
C8_OverrideOneShot ==
    bindPolicy = BindPolicyLoopbackOnly
    => Cardinality({t \in Threads : InStart(t) /\ isPublicBindAddr(th[t].fwd.LocalAddr)}) <= 1

\* C9: Stop on a known id runs to its final section and leaves the entry down
\* with PID 0 and no cancel handle, whatever the entry was before.
C9_StopLeavesDown ==
    [][\A t \in Threads :
          /\ (th[t].pc = "st_lock" /\ th'[t].pc # "st_lock" /\ \E id \in th[t].todo : Has(id))
             => th'[t].pc = "st_signal"
          /\ (th[t].pc = "st_final" /\ th'[t].pc # "st_final")
             => /\ runtime'[th[t].id].State = "down"
                /\ runtime'[th[t].id].PID = 0
                /\ cancel'[th[t].id] = 0]_vars

\* a second Stop of an entry whose child was launched and killed: the first
\* Stop left it down with PID 0 and no cancel handle, the second has marked it
\* and reached its final section
C9_Witness ==
    \E t \in Threads : /\ th[t].pc = "st_final" /\ th[t].op = "Stop"
                        /\ th[t].gen = 0 /\ th[t].rt.PID = 0
                        /\ th[t].rt.StartedAt \in cancelled
                        /\ procs[th[t].rt.StartedAt].status # "none"
                        /\ runtime[th[t].id].State = "stopping"

\* C10: with auto-restart on, the watcher of a child whose entry is not
\* stopping consults the policy; below max-attempts the counter and the
\* attempts statistic go up by one and the backoff is armed; when it fires
\* Start is invoked for the tunnel; a successful launch leaves the entry up
\* with PID > 0 and the returning Start adds one to the successes.
C10_RestartWithinBudget ==
    [][/\ \A g \in Gens :
            (watcher[g] = "waiting" /\ watcher'[g] # "waiting" /\ restartEnabled
             /\ runtime[procs[g].id].State # "stopping")
            => watcher'[g] = "consult"
       /\ \A g \in Gens :
            (watcher[g] = "consult" /\ watcher'[g] # "consult"
             /\ restartAttempts[procs[g].id] < RestartMaxAttempts)
            => /\ restartAttempts'[procs[g].id] = restartAttempts[procs[g].id] + 1
               /\ restartStats'[procs[g].id].Attempts = restartStats[procs[g].id].Attempts + 1
               /\ watcher'[g] = "backoff"
       /\ \A g \in Gens :
            (watcher[g] = "backoff" /\ watcher'[g] # "backoff")
            => \E t \in Threads : /\ th[t].pc = "idle" /\ th'[t].op = "AutoRestart"
                                  /\ RuntimeID(th'[t].host, th'[t].fwd) = procs[g].id
       /\ \A t \in Threads :
            (th[t].op = "AutoRestart" /\ th[t].pc = "s_ok" /\ th'[t].pc # "s_ok")
            => runtime'[th[t].id].State = "up" /\ runtime'[th[t].id].PID > 0
       /\ \A t \in Threads :
            (th[t].op = "AutoRestart" /\ th[t].pc = "s_ret" /\ th[t].err = "" /\ th'[t].pc # "s_ret")
            => restartStats'[th[t].id].Successes = restartStats[th[t].id].Successes + 1]_vars

\* a tunnel restarted once by the policy is up again
C10_Witness ==
    \E id \in Ids : /\ restartAttempts[id] = 1
                     /\ restartStats[id].Attempts = 1 /\ restartStats[id].Successes = 1
                     /\ runtime[id].State = "up" /\ runtime[id].PID > 0
                     /\ procs[1].status = "reaped"

\* no launcher call has failed
NoLaunchFailure == \A t \in Threads : th[t].pc # "s_fail"

\* no stable window has elapsed: the timers armed so far are all pending
NoResetFired == \A g \in Gens : watcher[g] # "none" => g \in resetTimer

\* the tunnel is quarantined for good after exactly 1 + max-attempts launcher
\* calls, with a failure recorded and no restart scheduled
QuarantinedAtBudget ==
    /\ runtime[IdApi].State = "quarantined"
    /\ nextGen = 1 + RestartMaxAttempts
    /\ \A g \in 1 .. nextGen : procs[g].status = "reaped"
    /\ restartStats[IdApi].Failures >= 1
    /\ \A g \in Gens : watcher[g] \notin {"consult", "backoff"}
    /\ \A t \in Threads : th[t].pc = "idle"

C12_StableWindowReset ==
    [][/\ \A g \in Gens :
            (/\ g \in resetTimer /\ g \notin resetTimer'
             /\ runtime[procs[g].id].State = "up"
             /\ runtime[procs[g].id].PID = g)
            => restartAttempts'[procs[g].id] = 0
       /\ \A g \in Gens :
            (watcher[g] = "consult" /\ watcher'[g] # "consult" /\ restartAttempts[procs[g].id] = 0)
            => watcher'[g] = "backoff" /\ runtime' = runtime]_vars

\* a restarted tunnel stayed up for its stable window, which reset the used-up
\* counter; its child then exited and a further restart was scheduled
C12_Witness ==
    /\ restartStats[IdApi].Attempts = RestartMaxAttempts + 1
    /\ restartAttempts[IdApi] = 1
    /\ watcher[1 + RestartMaxAttempts] = "backoff"
    /\ (1 + RestartMaxAttempts) \notin resetTimer
    /\ runtime[IdApi].State # "quarantined"

RecoverOps == {"Recover", "RecoverByHost"}

RecoveredAfterBudget ==
    /\ th[1].op = "Recover" /\ th[1].pc = "s_get"
    /\ restartStats[IdApi].Failures >= 1
    /\ restartStats[IdApi].Attempts = RestartMaxAttempts
    /\ restartAttempts[IdApi] = 0
    /\ runtime[IdApi].State = "up" /\ runtime[IdApi].PID = 2 + RestartMaxAttempts

\* C14: Recover(id) on an entry that is not quarantined returns an error and
\* changes nothing: the entries, the cancel handles, the restart counters and
\* statistics are as before and no context is allocated nor child launched;
\* RecoverByHost(alias) does the same when no entry of the alias is
\* quarantined.
C14_RecoverRejectsNonQuarantined ==
    [][ /\ \A t \in Threads, id \in Ids :
              ( /\ th[t].op = "Recover" /\ th[t].pc = "rc_lock" /\ th[t].todo = {id}
                /\ runtime[id].State # "quarantined" /\ th'[t] # th[t] )
              => /\ th'[t].pc = "rc_ret" /\ th'[t].err # ""
                 /\ UNCHANGED <<runtime, cancel, nextGen, procs, watcher, restartAttempts, restartStats>>
        /\ \A t \in Threads :
              ( /\ th[t].pc = "idle" /\ th'[t].op = "RecoverByHost"
                /\ \A id \in Ids : ~(runtime[id].State = "quarantined" /\ runtime[id].HostAlias = th'[t].host) )
              => /\ th'[t].pc = "rc_ret" /\ th'[t].err = "no quarantined tunnel for host"
                 /\ UNCHANGED <<runtime, cancel, nextGen, procs, watcher, restartAttempts, restartStats>>
        /\ \A t \in Threads :
              (th[t].pc = "rc_ret" /\ th'[t] # th[t])
              => /\ th'[t].pc = "idle"
                 /\ UNCHANGED <<runtime, cancel, nextGen, procs, watcher, restartAttempts, restartStats>>
      ]_vars

\* Recover has been refused for a tunnel that is up with a live child
C14_Witness ==
    /\ th[1].op = "Recover" /\ th[1].pc = "rc_ret" /\ th[1].id = IdApi
    /\ th[1].err = "tunnel is not quarantined"
    /\ runtime[IdApi].State = "up" /\ runtime[IdApi].PID \in Gens
    /\ procs[runtime[IdApi].PID].status = "running"

SnapshotStep ==
    \/ \E t \in Threads : th'[t] # th[t] /\ (th[t].op = "Snapshot" \/ th'[t].op = "Snapshot")
    \/ probes' # probes
    \/ results' # results

\* C16: no step of Snapshot changes the runtime map, the cancel map or the
\* restart counters: not the copy, not the receipt of a failed or a successful
\* probe result, not the deadline, not a probe goroutine, and not the caller
\* changing a record of the returned slice.
C16_SnapshotReadOnly ==
    [][SnapshotStep => UNCHANGED <<runtime, cancel, restartAttempts, restartStats>>]_vars

\* the caller has changed a returned record after a Snapshot that received a
\* failed probe and left another probe in flight at the deadline; both entries
\* are still up
C16_Witness ==
    /\ th[2].pc = "sn_ret" /\ th[2].out[IdApi].State = "edited"
    /\ runtime[IdApi].State = "up" /\ runtime[IdApi2].State = "up"
    /\ \E id \in {IdApi, IdApi2} : probes[th[2].call][id].st = "done" /\ probes[th[2].call][id].err
    /\ \E id \in {IdApi, IdApi2} : probes[th[2].call][id].st = "dialing"
    /\ results[th[2].call].buf = <<>>

\* the entries of a call whose probe result has not been received
InFlight(c) ==
    {id \in Ids : \/ probes[c][id].st \in {"dialing", "sending"}
                  \/ \E i \in 1..Len(results[c].buf) : results[c].buf[i].index = id}

\* C17: Snapshot leaves its collection loop whatever the probes do: the
\* deadline branch is open in every state of the loop and taking it ends the
\* call, the entries whose probe is then in flight have latency 0 in the
\* returned slice, and every probe goroutine, abandoned or not, finds room in
\* the channel for its result and ends.
C17_SnapshotDeadline ==
    /\ [](\A t \in Threads : th[t].pc = "sn_collect" => ENABLED SnapshotTimeout(t))
    /\ [](\A t \in Threads : th[t].pc = "sn_ret" =>
             \A id \in InFlight(th[t].call) : th[t].out[id].LatencyMS = 0)
    /\ [](\A c \in Calls, id \in Ids :
             probes[c][id].st = "sending" => Len(results[c].buf) < results[c].cap)
    /\ \A t \in Threads : (th[t].pc = "sn_collect") ~> (th[t].pc = "sn_ret")
    /\ \A c \in Calls, id \in Ids : (probes[c][id].st = "dialing") ~> (probes[c][id].st = "done")

\* the deadline has ended a Snapshot of two up entries: one result was
\* received with its latency, the other probe is still dialling
C17_Witness ==
    /\ th[2].pc = "sn_ret" /\ th[2].expected = 2 /\ th[2].collected = 1
    /\ \E id \in Ids : probes[th[2].call][id].st = "done" /\ th[2].out[id].LatencyMS > 0
    /\ \E id \in Ids : probes[th[2].call][id].st = "dialing" /\ th[2].out[id].LatencyMS = 0

SeededBy(id, callers) ==
    \E t \in Threads : /\ th[t].pc = "s_lock" /\ th'[t].pc = "s_launch"
                        /\ th[t].id = id /\ th[t].op \in callers

\* the step is the outcome of the launcher call of a Start of entry id
LaunchedBy(id) ==
    \E t \in Threads : th[t].pc \in {"s_ok", "s_fail"} /\ th'[t].pc \notin {"s_ok", "s_fail"} /\ th[t].id = id

\* the step is one of the two critical sections of a Stop of entry id
MarkedByStop(id) ==
    \E t \in Threads : th[t].pc = "st_lock" /\ th'[t].pc = "st_signal" /\ th'[t].id = id
FinalizedByStop(id) ==
    \E t \in Threads : th[t].pc = "st_final" /\ th'[t].pc # "st_final" /\ th[t].id = id

\* the step is the critical section of the watcher of a child of entry id
WatchedExit(id) ==
    \E g \in Gens : watcher[g] = "waiting" /\ watcher'[g] # "waiting" /\ procs[g].id = id

\* C19: every change of an entry's state is one of: absent, down or error to
\* starting by Start; quarantined to starting by Recover; starting to up or
\* error by the Start that seeded it; up, starting or error to stopping by
\* Stop; stopping to down by Stop; up to error or down by the watcher; into
\* quarantined by the restore, by Reconcile or by the restart policy; and the
\* appearance of a restored entry.
C19_AllowedTransitions ==
    [][\A id \in Ids :
          runtime'[id].State # runtime[id].State
          => \/ /\ runtime'[id].State = "starting"
                /\ \/ runtime[id].State \in {"absent", "down", "error"} /\ SeededBy(id, {"Start", "AutoRestart"})
                   \/ runtime[id].State = "quarantined" /\ SeededBy(id, {"Recover", "RecoverByHost"})
             \/ /\ runtime[id].State = "starting" /\ runtime'[id].State \in {"up", "error"}
                /\ LaunchedBy(id)
             \/ /\ runtime[id].State \in {"up", "starting", "error"} /\ runtime'[id].State = "stopping"
                /\ MarkedByStop(id)
             \/ /\ runtime[id].State = "stopping" /\ runtime'[id].State = "down"
                /\ FinalizedByStop(id)
             \/ /\ runtime[id].State = "up" /\ runtime'[id].State \in {"error", "down"}
                /\ WatchedExit(id)
             \/ /\ runtime'[id].State = "quarantined"
                /\ \/ \E t \in Threads : th[t].pc = "lr_lock" /\ th'[t].pc # "lr_lock"
                   \/ runtime[id].State = "up" /\ ops' # ops
                   \/ \E g \in Gens : watcher[g] = "consult" /\ watcher'[g] = "done" /\ procs[g].id = id
             \/ /\ runtime[id].State = "absent"
                /\ \E t \in Threads : th[t].pc = "lr_lock" /\ th'[t].pc # "lr_lock"
      ]_vars

\* C20: a step after which an entry is up either left it up or found it in
\* starting.
C20_UpOnlyFromStarting ==
    [][\A id \in Ids : runtime'[id].State = "up" => runtime[id].State \in {"up", "starting"}]_vars

\* the messages of the errors of the validation at the head of Start
ValidationErrors ==
    {"invalid local port", "invalid remote port", "invalid forward specification",
     "public bind rejected by security policy"}

\* endpoint hosts with whitespace or a path separator
BadHosts == {"a b", "a/b"}

\* C21: a Start whose forward has a port outside 1..65535, an invalid endpoint
\* host, or a local address the bind policy rejects goes straight to its
\* return with an error, and neither its call nor its return changes the
\* runtime map or the cancel map or invokes the launcher.
C21_RejectedStartChangesNothing ==
    [][\A t \in Threads :
         /\ (/\ th[t].pc = "idle" /\ th'[t].op = "Start" /\ th'[t].pc # "idle"
             /\ \/ th'[t].fwd.LocalPort < 1 \/ th'[t].fwd.LocalPort > 65535
                \/ th'[t].fwd.RemotePort < 1 \/ th'[t].fwd.RemotePort > 65535
                \/ th'[t].fwd.LocalAddr \in BadHosts \/ th'[t].fwd.RemoteAddr \in BadHosts
                \/ /\ bindPolicy = BindPolicyLoopbackOnly /\ ~allowPublicBind
                   /\ th'[t].fwd.LocalAddr \in UnspecifiedAddrs)
            => /\ th'[t].pc = "s_ret" /\ th'[t].err \in ValidationErrors /\ th'[t].id = NoId
               /\ runtime' = runtime /\ cancel' = cancel /\ nextGen' = nextGen /\ procs' = procs
         /\ (th[t].pc = "s_ret" /\ th[t].err \in ValidationErrors /\ th'[t] # th[t])
            => /\ th'[t].pc = "idle"
               /\ runtime' = runtime /\ cancel' = cancel /\ nextGen' = nextGen /\ procs' = procs
      ]_vars

\* a Start of the public forward is rejected by the bind policy while an
\* entry with its id, started under the override, is up
C21_Witness ==
    /\ th[1].pc = "s_ret" /\ th[1].fwd = FwdPublic
    /\ th[1].err = "public bind rejected by security policy"
    /\ runtime[RuntimeID("db", FwdPublic)].State = "up"
    /\ cancel[RuntimeID("db", FwdPublic)] # 0

\* C22: the scan of StopByHost collects exactly the entries of the alias in
\* state up, starting or error and changes nothing; when it collects none the
\* call ends with an error; afterwards the call changes only entries it
\* collected, and each of them is left down by its Stop.
C22_StopByHostExact ==
    [][\A t \in Threads :
         /\ (th[t].pc = "idle" /\ th'[t].op = "StopByHost")
            => /\ runtime' = runtime /\ cancel' = cancel /\ procs' = procs
               /\ th'[t].host \in Hosts
               /\   LET qualifying == {id \in Ids : /\ runtime[id].State # "absent"
                                                     /\ runtime[id].HostAlias = th'[t].host
                                                     /\ runtime[id].State \in {"up", "starting", "error"}}
                     IN  IF qualifying = {}
                         THEN th'[t].pc = "sb_ret" /\ th'[t].err # "" /\ th'[t].todo = {}
                         ELSE th'[t].pc = "st_lock" /\ th'[t].todo = qualifying
         /\ (th[t].op = "StopByHost" /\ th[t].pc # "idle" /\ th'[t] # th[t])
            => /\ th'[t].todo \subseteq th[t].todo
               /\ \A id \in Ids :
                     runtime'[id] # runtime[id] \/ cancel'[id] # cancel[id]
                     => id \in th[t].todo \cup {th[t].id}
               /\ th[t].pc = "sb_ret" => (th'[t].pc = "idle" /\ runtime' = runtime /\ cancel' = cancel)
               /\ th[t].pc = "st_final"
                     => runtime'[th[t].id].State = "down" /\ runtime'[th[t].id].PID = 0
      ]_vars

\* StopByHost of one alias is stopping its entry while the entry of the other
\* alias stays up
C22_Witness ==
    /\ th[1].op = "StopByHost" /\ th[1].pc = "st_final" /\ th[1].id = IdApi
    /\ runtime[RuntimeID("db", FwdPublic)].State = "up"

\* StopByHost found the only entry of the alias down and returned its error
C22_WitnessNoneActive ==
    /\ th[1].op = "StopByHost" /\ th[1].pc = "sb_ret" /\ th[1].host = "api"
    /\ runtime[IdApi].State = "down"

\* C23: no step of a Preflight call changes the runtime map, the cancel map,
\* the restart counters and statistics, the policies or the one-shot
\* override, nor starts or signals a process; the report names the bind
\* policy exactly when the policy rejects the forward, and the port exactly
\* when a live tunnel process holds it.
C23_PreflightReadOnly ==
    [][\A t \in Threads :
         ((th[t].op = "Preflight" \/ th'[t].op = "Preflight") /\ th'[t] # th[t])
         => /\ runtime' = runtime /\ cancel' = cancel
            /\ restartAttempts' = restartAttempts /\ restartStats' = restartStats
            /\ restartEnabled' = restartEnabled /\ resetTimer' = resetTimer
            /\ bindPolicy' = bindPolicy /\ allowPublicBind' = allowPublicBind
            /\ nextGen' = nextGen /\ cancelled' = cancelled /\ procs' = procs /\ ext' = ext
            /\ th[t].pc = "idle"
                  => ("bind-policy" \in th'[t].findings
                        <=> /\ bindPolicy = BindPolicyLoopbackOnly /\ ~allowPublicBind
                            /\ th'[t].fwd.LocalAddr \in UnspecifiedAddrs)
            /\ th[t].pc = "pf_listen"
                  => ("port-in-use" \in th'[t].findings
                        <=> \E g \in Gens : /\ procs[g].status = "running"
                                             /\ procs[g].id[3] = th[t].fwd.LocalPort)
      ]_vars

\* a Preflight of a forward whose port an up tunnel holds is about to return
\* a failing report, the override being set
C23_Witness ==
    /\ th[2].op = "Preflight" /\ th[2].pc = "pf_ret"
    /\ "port-in-use" \in th[2].findings
    /\ runtime[IdApi].State = "up"
    /\ allowPublicBind

\* a Preflight has found the forward against the bind policy
C23_WitnessBindPolicy ==
    /\ th[2].op = "Preflight" /\ th[2].pc = "pf_ret" /\ th[2].fwd = FwdPublic
    /\ th[2].findings = {"bind-policy"}

\* a Preflight is about to return a passing report
C23_WitnessPass ==
    /\ th[2].op = "Preflight" /\ th[2].pc = "pf_ret" /\ th[2].fwd = FwdLoop
    /\ th[2].findings = {}

\* C24: Reconcile quarantines exactly the entries in scope (the alias given, or
\* every entry when none is given) that are up with PID 0 or with a process
\* that is not alive, its action list holds exactly those entries, and every
\* other entry is unchanged.
C24_ReconcileExact ==
    [][\A t \in Threads :
         (th[t].pc = "idle" /\ th'[t].op = "Reconcile")
         => LET inScope(id) == th'[t].host = "" \/ runtime[id].HostAlias = th'[t].host
                alive(pid) == \/ pid \in Gens /\ procs[pid].status \in {"running", "dead"}
                              \/ \E id \in Ids : ExtPidOf(id) = pid /\ ext[id] \in AliveOs
                stale == {id \in Ids : /\ runtime[id].State = "up" /\ inScope(id)
                                       /\ (runtime[id].PID = 0 \/ ~alive(runtime[id].PID))}
            IN  /\ \A id \in stale : runtime'[id].State = "quarantined"
                /\ \A id \in Ids \ stale : runtime'[id] = runtime[id]
                /\ th'[t].todo = stale
                /\ cancel' = cancel
      ]_vars

\* Reconcile of one alias has quarantined its entry whose process had exited
\* and left alone an up entry of that alias with a live process and the stale
\* up entry of the other alias
C24_Witness ==
    /\ th[1].op = "Reconcile" /\ th[1].pc = "rn_ret" /\ th[1].host = "api"
    /\ th[1].todo = {IdApi}
    /\ runtime[IdApi].State = "quarantined"
    /\ runtime[IdApi2].State = "up" /\ ext[IdApi2] \in AliveOs
    /\ runtime[IdDb].State = "up" /\ ext[IdDb] = "dead"

\* the events of the JSON lines of the file, in file order
EventsOf(file) ==
    LET isJson(line) == line.kind = "json"
        lines == SelectSeq(file, isJson)
    IN  [i \in 1 .. Len(lines) |-> lines[i].evt]

\* the events that satisfy every filter that is set in q, in file order, cut
\* to the last Limit of them when Limit is positive
Selected(file, q) ==
    LET sat(e) == /\ (q.HostAlias \in {"", " "} \/ e.HostAlias = q.HostAlias)
                  /\ (q.TunnelID = "" \/ e.TunnelID = q.TunnelID)
                  /\ (q.EventType = "" \/ e.EventType = q.EventType)
                  /\ (q.Since = 0 \/ e.Timestamp >= q.Since)
        all == SelectSeq(EventsOf(file), sat)
    IN  IF q.Limit > 0 /\ Len(all) > q.Limit
        THEN SubSeq(all, Len(all) - q.Limit + 1, Len(all))
        ELSE all

\* C25 (as stated): a Read never changes the file, and it returns without an
\* error exactly the events of the file that satisfy the filters set, in
\* append order, the last Limit of them for a positive Limit, lines that are
\* not events being skipped.
C25_ReadSelects ==
    [][(evRead' # evRead)
       => /\ evFile' = evFile
          /\ evRead'.pc = "done"
                => evRead'.err = "" /\ evRead'.out = Selected(evFile, evRead.q)]_vars

\* C25 (amended): the same when no line exceeds the buffer of the scanner;
\* when one does, Read returns an error and no events.
C25_ReadSelectsOrScanError ==
    [][(evRead' # evRead)
       => /\ evFile' = evFile
          /\ evRead'.pc = "done"
                => IF \E i \in 1 .. Len(evFile) : evFile[i].kind = "long"
                   THEN evRead'.err # "" /\ evRead'.out = <<>>
                   ELSE evRead'.err = "" /\ evRead'.out = Selected(evFile, evRead.q)]_vars

\* a Read for one tunnel with a limit of 1 has skipped a line that is not JSON
\* and returned the later of the two events of the tunnel
C25_Witness ==
    /\ evRead.pc = "done" /\ evRead.err = ""
    /\ evRead.q.TunnelID = "a" /\ evRead.q.Limit = 1
    /\ evFile = <<JsonLine(EvRequested), [kind |-> "garbage", evt |-> ZeroEvent], JsonLine(EvSucceeded)>>
    /\ evRead.out = <<EvSucceeded>>

(* ---------------- forward parsers ---------------- *)

\* one endpoint of a LocalForward directive: a bare port, or "addr:port" cut
\* at the last colon
parseEndpoint(s, local) ==
    LET idx == LastIndex(s, ":")
        addr == Upto(s, idx - 1)
        fallback == IF local THEN "127.0.0.1" ELSE "localhost"
        fail == [addr |-> "", port |-> 0, ok |-> FALSE]
    IN
    IF Count(s, ":") = 0
    THEN IF ~Atoi(s).ok THEN fail ELSE [addr |-> fallback, port |-> Atoi(s).n, ok |-> TRUE]
    ELSE IF ~Atoi(From(s, idx + 1)).ok THEN fail
    ELSE [addr |-> IF addr = "" THEN fallback ELSE addr, port |-> Atoi(From(s, idx + 1)).n, ok |-> TRUE]

\* the value of a LocalForward directive: two endpoints
parseLocalForward(v) ==
    LET parts == Fields(v)
        l == parseEndpoint(parts[1], TRUE)
        r == parseEndpoint(parts[2], FALSE)
    IN
    IF Len(parts) # 2 THEN ParseErr("skipped")
    ELSE IF ~l.ok THEN ParseErr("skipped")
    ELSE IF ~r.ok THEN ParseErr("skipped")
    ELSE ParseOk([LocalAddr |-> l.addr, LocalPort |-> l.port, RemoteAddr |-> r.addr, RemotePort |-> r.port])

\* canonical forwards: addresses after canonicalization, ports in range
IPv6Literals == {"::1", "2001:db8::1"}
CanonicalForwards ==
    [LocalAddr : {"127.0.0.1", "0.0.0.0", "localhost", "::1"}, LocalPort : {80, 8080, 65535},
     RemoteAddr : {"localhost", "db.internal", "2001:db8::1"}, RemotePort : {1, 80, 5432}]
HasIPv6(fwd) == fwd.LocalAddr \in IPv6Literals \/ fwd.RemoteAddr \in IPv6Literals

\* an endpoint as a user writes it, an IPv6 literal in brackets
BracketEndpoint(addr, port) ==
    IF addr \in IPv6Literals THEN "[" \o addr \o "]:" \o Itoa(port) ELSE addr \o ":" \o Itoa(port)
BracketArg(fwd) ==
    BracketEndpoint(fwd.LocalAddr, fwd.LocalPort) \o ":" \o BracketEndpoint(fwd.RemoteAddr, fwd.RemotePort)

\* the LocalForward value the config writer prints for a forward
FormatLocalForward(fwd) ==
    FormatEndpoint(NormalizeAddr(fwd.LocalAddr, "127.0.0.1"), fwd.LocalPort) \o " "
        \o FormatEndpoint(NormalizeAddr(fwd.RemoteAddr, "localhost"), fwd.RemotePort)
BracketLocalForward(fwd) ==
    BracketEndpoint(fwd.LocalAddr, fwd.LocalPort) \o " " \o BracketEndpoint(fwd.RemoteAddr, fwd.RemotePort)

\* forward arguments a user types that no forward was printed to
UserArgs ==
    {"", "8080", "15432:localhost:5432", "8080:::1:80", "8080:[::1]:80", "8080:localhost:",
     "0:localhost:80", "8080:localhost:65536", "x:localhost:80", "[::1:8080:localhost:80",
     "[::1]8080:localhost:80", " 8080:localhost:80 ", "8080:a/b:80", ":8080:localhost:80"}

\* LocalForward values of a config file that no forward was printed to
UserLocalForwards ==
    {"", "8080", "8080 5432", "8080 ::1:5432", "8080 localhost:x", "8080 localhost:5432 extra",
     "99999 localhost:80", "0 localhost:80", "8080 a/b:80", ":8080 :80", "8080 localhost:-1"}

CallRecord(fn, via, in, spec, res) ==
    [fn |-> fn, via |-> via, in |-> in, spec |-> spec, ok |-> res.ok, fwd |-> res.fwd, err |-> res.err]

\* a user passes the argument to the CLI
ParseForwardArgCall(arg) ==
    /\ parsed.fn = "none"
    /\ parsed' = CallRecord("ParseForwardArg", "user", arg, ZeroFwd, ParseForwardArg(arg))
    /\ UNCHANGED mainVars /\ UNCHANGED <<evFile, evRead, cfgRun>> /\ UNCHANGED persistVars

\* a user writes the forward with its IPv6 literals in brackets
ParseBracketedCall(fwd) ==
    /\ parsed.fn = "none"
    /\ parsed' = CallRecord("ParseForwardArg", "bracketed", BracketArg(fwd), fwd, ParseForwardArg(BracketArg(fwd)))
    /\ UNCHANGED mainVars /\ UNCHANGED <<evFile, evRead, cfgRun>> /\ UNCHANGED persistVars

\* the forward is printed as the argument of ssh -L and that argument is parsed
ParsePrintedArgCall(fwd) ==
    /\ parsed.fn = "none"
    /\ parsed' = CallRecord("ParseForwardArg", "printed", FormatForwardArg(fwd), fwd,
                            ParseForwardArg(FormatForwardArg(fwd)))
    /\ UNCHANGED mainVars /\ UNCHANGED <<evFile, evRead, cfgRun>> /\ UNCHANGED persistVars

\* forwardFromRuntime of an entry seeded for the forward by Start and loaded
\* again from the runtime file, where Forward is not stored
ForwardFromRuntimeCall(fwd) ==
    LET Local == FormatEndpoint(NormalizeAddr(fwd.LocalAddr, "127.0.0.1"), fwd.LocalPort)
        Remote == FormatEndpoint(NormalizeAddr(fwd.RemoteAddr, "localhost"), fwd.RemotePort)
    IN
    /\ parsed.fn = "none"
    /\ parsed' = CallRecord("ParseForwardArg", "runtime", Local \o ":" \o Remote, fwd,
                            ParseForwardArg(Local \o ":" \o Remote))
    /\ UNCHANGED mainVars /\ UNCHANGED <<evFile, evRead, cfgRun>> /\ UNCHANGED persistVars

\* compileHosts meets a LocalForward directive with this value
ParseLocalForwardCall(via, v, fwd) ==
    /\ parsed.fn = "none"
    /\ parsed' = CallRecord("parseLocalForward", via, v, fwd, parseLocalForward(v))
    /\ UNCHANGED mainVars /\ UNCHANGED <<evFile, evRead, cfgRun>> /\ UNCHANGED persistVars

NextForward ==
    \/ \E arg \in UserArgs : ParseForwardArgCall(arg)
    \/ \E fwd \in CanonicalForwards : ParseBracketedCall(fwd)
    \/ \E fwd \in CanonicalForwards : ParsePrintedArgCall(fwd)
    \/ \E fwd \in CanonicalForwards : ForwardFromRuntimeCall(fwd)
    \/ \E v \in UserLocalForwards : ParseLocalForwardCall("user", v, ZeroFwd)
    \/ \E fwd \in CanonicalForwards : ParseLocalForwardCall("printed", FormatLocalForward(fwd), fwd)
    \/ \E fwd \in CanonicalForwards : ParseLocalForwardCall("bracketed", BracketLocalForward(fwd), fwd)

SpecForward == InitLifecycle /\ [][NextForward]_vars

\* C26: a canonical forward, printed as the ssh -L argument or as the runtime
\* entry's Local and Remote strings joined by a colon, parses back with
\* ParseForwardArg to the same forward, IPv6 addresses included.
C26_PrintParseRoundTrip ==
    parsed.fn = "ParseForwardArg" /\ parsed.via \in {"printed", "runtime"}
        => parsed.ok /\ parsed.fwd = parsed.spec

\* the input has an IPv6 literal outside brackets directly before a port
UnbracketedIPv6(in) ==
    \E lit \in IPv6Literals : \E i \in 1 .. (Len(in) - Len(lit) - 1) :
        /\ SubSeq(in, i, i + Len(lit)) = lit \o ":"
        /\ (i = 1 \/ At(in, i - 1) \in {":", " "})
        /\ Atoi(At(in, i + Len(lit) + 1)).ok
\* the input has an IPv6 literal in brackets and none outside
BracketedIPv6(in) ==
    /\ \E lit \in IPv6Literals : Contains(in, "[" \o lit \o "]:")
    /\ ~UnbracketedIPv6(in)

\* C27: an unbracketed IPv6 literal next to a port is an error of
\* ParseForwardArg on either side, and a LocalForward value with one yields no
\* forward; bracketed literals are accepted with the brackets stripped.
C27_UnbracketedIPv6Rejected ==
    /\ parsed.fn \in {"ParseForwardArg", "parseLocalForward"} /\ UnbracketedIPv6(parsed.in)
        => ~parsed.ok
    /\ parsed.fn \in {"ParseForwardArg", "parseLocalForward"} /\ parsed.via = "bracketed"
            /\ BracketedIPv6(parsed.in)
        => parsed.ok /\ parsed.fwd = parsed.spec

(* ---------------- config parser ---------------- *)

MaxIncludeDepth == 16
\* the longest include chain and the most lines of a root file tried
MaxChain == 18
MaxCfgLines == 3

\* a line longer than the scanner's buffer (bufio.MaxScanTokenSize)
LongLine == "<a line of more than 65536 bytes>"

\* the bytes of the inputs in ascending order, for sort.Strings
Alphabet == " !#*-./0123456789:=?ABCDEFGHIJKLMNOPQRSTUVWXYZ[]_abcdefghijklmnopqrstuvwxyz~"
CharRank(ch) == Index(Alphabet, ch)
RECURSIVE StrLess(_, _)
StrLess(a, b) ==
    IF b = "" THEN FALSE
    ELSE IF a = "" THEN TRUE
    ELSE IF At(a, 1) # At(b, 1) THEN CharRank(At(a, 1)) < CharRank(At(b, 1))
    ELSE StrLess(From(a, 2), From(b, 2))
RECURSIVE SortStrings(_)
SortStrings(set) ==
    IF set = {} THEN <<>>
    ELSE LET least == CHOOSE a \in set : \A b \in set \ {a} : StrLess(a, b)
         IN <<least>> \o SortStrings(set \ {least})

\* strings.ToLower on ASCII letters
RECURSIVE ToLower(_)
ToLower(s) ==
    IF s = "" THEN ""
    ELSE LET r == CharRank(At(s, 1))
             ch == IF r >= CharRank("A") /\ r <= CharRank("Z")
                   THEN At(Alphabet, r - CharRank("A") + CharRank("a"))
                   ELSE At(s, 1)
         IN ch \o ToLower(From(s, 2))

\* the line up to the first "#" outside double quotes, trimmed
RECURSIVE CommentStart(_, _, _)
CommentStart(line, i, inQuote) ==
    IF i > Len(line) THEN 0
    ELSE IF At(line, i) = "\"" THEN CommentStart(line, i + 1, ~inQuote)
    ELSE IF At(line, i) = "#" /\ ~inQuote THEN i
    ELSE CommentStart(line, i + 1, inQuote)
stripInlineComment(line) ==
    IF CommentStart(line, 1, FALSE) = 0 THEN TrimSpace(line)
    ELSE TrimSpace(Upto(line, CommentStart(line, 1, FALSE) - 1))

\* "key value" or "key=value"; the inputs separate with blanks, not tabs
splitDirective(line) ==
    LET i == Index(line, " ")
        j == Index(line, "=")
        cut(k) == [key |-> TrimSpace(Upto(line, k - 1)), value |-> TrimSpace(From(line, k + 1)),
                   ok |-> TrimSpace(Upto(line, k - 1)) # "" /\ TrimSpace(From(line, k + 1)) # ""]
    IN
    IF i > 1 THEN cut(i)
    ELSE IF j > 1 THEN cut(j)
    ELSE [key |-> "", value |-> "", ok |-> FALSE]

\* the home directory of the user is /home/u
expandHome(path) ==
    IF Len(path) >= 2 /\ Upto(path, 2) = "~/" THEN "/home/u/" \o From(path, 3) ELSE path

\* filepath.Dir of a clean absolute path of a file
Dir(abs) == IF LastIndex(abs, "/") <= 1 THEN "/" ELSE Upto(abs, LastIndex(abs, "/") - 1)

\* the include pattern made absolute against the including file's directory
IncludePath(abs, pattern) ==
    IF HasPrefix(expandHome(pattern), "/") THEN expandHome(pattern)
    ELSE IF Dir(abs) = "/" THEN "/" \o expandHome(pattern)
    ELSE Dir(abs) \o "/" \o expandHome(pattern)

\* filepath.Match for the patterns of the inputs: a literal, or "*" alone
globMatch(alias, pattern) ==
    IF pattern = "" THEN FALSE ELSE pattern = "*" \/ pattern = alias

RECURSIVE matchesFrom(_, _, _, _)
matchesFrom(alias, patterns, i, matched) ==
    IF i > Len(patterns) THEN matched
    ELSE LET p == patterns[i]
             negated == HasPrefix(p, "!")
             pat == IF negated THEN From(p, 2) ELSE p
         IN IF ~globMatch(alias, pat) THEN matchesFrom(alias, patterns, i + 1, matched)
            ELSE IF negated THEN FALSE
            ELSE matchesFrom(alias, patterns, i + 1, TRUE)
matchesAny(alias, patterns) == matchesFrom(alias, patterns, 1, FALSE)

isConcreteAlias(pattern) ==
    /\ ~HasPrefix(pattern, "!")
    /\ Count(pattern, "*") = 0 /\ Count(pattern, "?") = 0
    /\ pattern # ""

\* the values a block holds for a key, in file order
RECURSIVE ValuesOf(_, _)
ValuesOf(values, key) ==
    IF values = <<>> THEN <<>>
    ELSE (IF Head(values)[1] = key THEN <<Head(values)[2]>> ELSE <<>>) \o ValuesOf(Tail(values), key)
LastOr(vals, old) == IF Len(vals) > 0 THEN vals[Len(vals)] ELSE old

\* the forwards of the LocalForward values that parse
RECURSIVE ForwardsOf(_)
ForwardsOf(vals) ==
    IF vals = <<>> THEN <<>>
    ELSE (IF parseLocalForward(Head(vals)).ok THEN <<parseLocalForward(Head(vals)).fwd>> ELSE <<>>)
             \o ForwardsOf(Tail(vals))

\* one matching block applied to the host being compiled
ApplyBlock(h, b) ==
    LET port == LastOr(ValuesOf(b.values, "port"), "") IN
    [h EXCEPT !.HostName = LastOr(ValuesOf(b.values, "hostname"), @),
              !.User = LastOr(ValuesOf(b.values, "user"), @),
              !.Port = IF port # "" /\ Atoi(port).ok THEN Atoi(port).n ELSE @,
              !.IdentityFile = IF ValuesOf(b.values, "identityfile") # <<>>
                               THEN expandHome(LastOr(ValuesOf(b.values, "identityfile"), "")) ELSE @,
              !.ProxyJump = LastOr(ValuesOf(b.values, "proxyjump"), @),
              !.Forwards = @ \o ForwardsOf(ValuesOf(b.values, "localforward"))]
RECURSIVE CompileHost(_, _)
CompileHost(h, blocks) ==
    IF blocks = <<>> THEN h
    ELSE CompileHost(IF matchesAny(h.Alias, Head(blocks).patterns) THEN ApplyBlock(h, Head(blocks)) ELSE h,
                     Tail(blocks))

\* compileHosts: one HostEntry per concrete alias, sorted by alias
compileHosts(blocks) ==
    LET aliasSet == {p \in UNION {{b.patterns[i] : i \in 1 .. Len(b.patterns)} :
                                   b \in {blocks[k] : k \in 1 .. Len(blocks)}} : isConcreteAlias(p)}
        aliases == SortStrings(aliasSet)
    IN [i \in 1 .. Len(aliases) |->
           CompileHost([Alias |-> aliases[i], HostName |-> aliases[i], User |-> "", Port |-> 22,
                        IdentityFile |-> "", ProxyJump |-> "", Forwards |-> <<>>], blocks)]

\* the block a file starts with, and a call of parseRecursive that has opened its file
NewBlock(patterns, abs) == [patterns |-> patterns, values |-> <<>>, source |-> abs]
NewFrame(abs, depth) ==
    [abs |-> abs, depth |-> depth, lineNo |-> 0, blocks |-> <<>>, warnings |-> <<>>,
     current |-> NewBlock(<<"*">>, abs), hasHostDecl |-> FALSE, todo |-> <<>>]

\* what a call of parseRecursive returns
Ret(blocks, warnings, err) == [blocks |-> blocks, warnings |-> warnings, err |-> err]

\* a call returns to the include site of its parent, or to ParseFile
ReturnTo(run, stack, m, ret) ==
    IF stack = <<>>
    THEN [run EXCEPT !.pc = "done", !.stack = <<>>,
                     !.err = ret.err,
                     !.warnings = IF ret.err # "" THEN <<>> ELSE ret.warnings,
                     !.hosts = IF ret.err # "" THEN <<>> ELSE compileHosts(ret.blocks)]
    ELSE LET parent == stack[Len(stack)]
             merged == [parent EXCEPT
                 !.warnings = @ \o ret.warnings \o
                     (IF ret.err # "" THEN <<"include " \o m \o " failed: " \o ret.err>> ELSE <<>>),
                 !.blocks = IF ret.err # "" THEN @ ELSE @ \o ret.blocks,
                 !.todo = Tail(@)]
         IN [run EXCEPT !.stack = [stack EXCEPT ![Len(stack)] = merged]]

EnterFile_NoSeen(run, stack, path, depth) ==
    IF depth > MaxIncludeDepth
    THEN ReturnTo(run, stack, path,
                  Ret(<<>>, <<>>, "include depth exceeded at " \o path \o " (max " \o Itoa(MaxIncludeDepth) \o ")"))
    ELSE IF path \notin DOMAIN run.fs
    THEN ReturnTo([run EXCEPT !.seen = @ \cup {path}], stack, path,
                  Ret(<<>>, <<"config file not found: " \o path>>, ""))
    ELSE [run EXCEPT !.seen = @ \cup {path}, !.opened = Append(@, path),
                     !.stack = Append(stack, NewFrame(path, depth))]

\* the entry of parseRecursive: the depth bound, the visited set, the open
EnterFile(run, stack, path, depth) ==
    IF depth > MaxIncludeDepth
    THEN ReturnTo(run, stack, path,
                  Ret(<<>>, <<>>, "include depth exceeded at " \o path \o " (max " \o Itoa(MaxIncludeDepth) \o ")"))
    ELSE IF path \in run.seen
    THEN ReturnTo(run, stack, path, Ret(<<>>, <<"include cycle skipped: " \o path>>, ""))
    ELSE IF path \notin DOMAIN run.fs
    THEN ReturnTo([run EXCEPT !.seen = @ \cup {path}], stack, path,
                  Ret(<<>>, <<"config file not found: " \o path>>, ""))
    ELSE [run EXCEPT !.seen = @ \cup {path}, !.opened = Append(@, path),
                     !.stack = Append(stack, NewFrame(path, depth))]

\* ParseFile(path) on the file system fs
ParseFile(fs, path) ==
    /\ cfgRun.pc = "idle"
    /\ cfgRun' = EnterFile([pc |-> "running", fs |-> fs, root |-> path, stack |-> <<>>, seen |-> {},
                        opened |-> <<>>, err |-> "", warnings |-> <<>>, hosts |-> <<>>],
                       <<>>, path, 0)
    /\ UNCHANGED mainVars /\ UNCHANGED <<evFile, evRead, parsed>> /\ UNCHANGED persistVars

Top == cfgRun.stack[Len(cfgRun.stack)]
SetTop(f) == [cfgRun EXCEPT !.stack[Len(cfgRun.stack)] = f]
Where(f) == f.abs \o ":" \o Itoa(f.lineNo + 1)

\* the scanner delivers the next line of the file on top of the stack
ScanLine ==
    /\ cfgRun.pc = "running"
    /\ Top.todo = <<>>
    /\ Top.lineNo < Len(cfgRun.fs[Top.abs])
    /\ cfgRun.fs[Top.abs][Top.lineNo + 1] # LongLine
    /\ LET f == Top
           text == TrimSpace(cfgRun.fs[f.abs][f.lineNo + 1])
           line == stripInlineComment(text)
           d == splitDirective(line)
           lowerKey == ToLower(d.key)
           read == [f EXCEPT !.lineNo = @ + 1]
           closed == IF f.hasHostDecl \/ Len(f.current.values) > 0
                     THEN Append(f.blocks, f.current) ELSE f.blocks
       IN cfgRun' =
           IF text = "" \/ HasPrefix(text, "#") \/ line = "" THEN SetTop(read)
           ELSE IF ~d.ok
                THEN SetTop([read EXCEPT !.warnings = Append(@, Where(f) \o " invalid directive")])
           ELSE IF lowerKey = "include" THEN SetTop([read EXCEPT !.todo = Fields(d.value)])
           ELSE IF lowerKey = "host"
                THEN SetTop([read EXCEPT
                         !.blocks = closed,
                         !.warnings = IF Fields(d.value) = <<>>
                                      THEN Append(@, Where(f) \o " Host missing patterns") ELSE @,
                         !.current = NewBlock(IF Fields(d.value) = <<>> THEN <<"*">> ELSE Fields(d.value), f.abs),
                         !.hasHostDecl = TRUE])
           ELSE SetTop([read EXCEPT !.current.values = Append(@, <<lowerKey, d.value>>)])
    /\ UNCHANGED mainVars /\ UNCHANGED <<evFile, evRead, parsed>> /\ UNCHANGED persistVars

\* the next pattern of an Include line; the patterns of the inputs have no
\* wildcard, so Glob yields the file when it exists and nothing otherwise
IncludeNext ==
    /\ cfgRun.pc = "running"
    /\ Top.todo # <<>>
    /\ LET f == Top
           pattern == Head(f.todo)
           m == IncludePath(f.abs, pattern)
       IN cfgRun' =
           IF m \notin DOMAIN cfgRun.fs
           THEN SetTop([f EXCEPT !.todo = Tail(@),
                           !.warnings = Append(@, f.abs \o ":" \o Itoa(f.lineNo)
                                                     \o " include matched nothing: " \o pattern)])
           ELSE EnterFile(cfgRun, cfgRun.stack, m, f.depth + 1)
    /\ UNCHANGED mainVars /\ UNCHANGED <<evFile, evRead, parsed>> /\ UNCHANGED persistVars

\* the scanner stops, at the end of the file or at a line it cannot hold
FileEnd ==
    /\ cfgRun.pc = "running"
    /\ Top.todo = <<>>
    /\ LET f == Top
           failed == f.lineNo < Len(cfgRun.fs[f.abs])
           closed == IF f.hasHostDecl \/ Len(f.current.values) > 0
                     THEN Append(f.blocks, f.current) ELSE f.blocks
       IN /\ IF failed THEN cfgRun.fs[f.abs][f.lineNo + 1] = LongLine ELSE TRUE
          /\ cfgRun' = ReturnTo(cfgRun, SubSeq(cfgRun.stack, 1, Len(cfgRun.stack) - 1), f.abs,
                 IF failed
                 THEN Ret(<<>>, f.warnings, "scan " \o f.abs \o ": bufio.Scanner: token too long")
                 ELSE Ret(closed, f.warnings, ""))
    /\ UNCHANGED mainVars /\ UNCHANGED <<evFile, evRead, parsed>> /\ UNCHANGED persistVars

\* a chain of n files, each including the next; the last one ends the chain,
\* includes the root or itself again, includes a file that does not exist, or
\* holds a line the scanner cannot read
FileName(k) == "/c/f" \o Itoa(k)
ChainTails == {"end", "root", "self", "missing", "long"}
TailLines(tail, k) ==
    CASE tail = "end" -> <<>>
      [] tail = "root" -> <<"Include /c/f0">>
      [] tail = "self" -> <<"Include f" \o Itoa(k)>>
      [] tail = "missing" -> <<"Include ~/missing.conf">>
      [] tail = "long" -> <<LongLine>>
ChainFS(n, tail) ==
    [path \in {FileName(k) : k \in 0 .. (n - 1)} |->
        LET k == CHOOSE i \in 0 .. (n - 1) : FileName(i) = path
        IN <<"Host h" \o Itoa(k)>>
               \o (IF k < n - 1 THEN <<"Include f" \o Itoa(k + 1)>> ELSE TailLines(tail, k))]

\* the lines a root file is made of
LineMenu ==
    {"BadLine", "Host api # main", "  LocalForward 8080 localhost:5432",
     "  LocalForward 8080 localhost:x", "  LocalForward 99999 localhost:80", LongLine}
RootPath == "/c/config"
LinesFS(lines) == [path \in {RootPath} |-> lines]
LineFiles == UNION {[1 .. n -> LineMenu] : n \in 0 .. MaxCfgLines}

\* the two files of TestParseFile_IncludeAndMalformed
TestFS ==
    [path \in {RootPath, "/c/inc.conf"} |->
        IF path = RootPath THEN <<"Include inc.conf", "BadLine", "Host api", "  HostName api.internal">>
        ELSE <<"Host db", "  HostName 10.1.1.1">>]

NextConfig ==
    \/ \E lines \in LineFiles : ParseFile(LinesFS(lines), RootPath)
    \/ ParseFile(TestFS, RootPath)
    \/ ScanLine
    \/ IncludeNext
    \/ FileEnd

SpecConfig == InitLifecycle /\ [][NextConfig]_vars

NextInclude ==
    \/ \E n \in 1 .. MaxChain : \E tail \in ChainTails : ParseFile(ChainFS(n, tail), FileName(0))
    \/ ParseFile(TestFS, "/c/none")
    \/ ScanLine
    \/ IncludeNext
    \/ FileEnd

SpecInclude == InitLifecycle /\ [][NextInclude]_vars

\* the directive of a line as the scanner loop sees it
Directive(line) == splitDirective(stripInlineComment(TrimSpace(line)))
Skipped(line) ==
    TrimSpace(line) = "" \/ HasPrefix(TrimSpace(line), "#") \/ stripInlineComment(TrimSpace(line)) = ""
IsDirective(line, key) ==
    line # LongLine /\ ~Skipped(line) /\ Directive(line).ok /\ ToLower(Directive(line).key) = key

\* an endpoint of a LocalForward value as the forward-argument parser reads it
RefEndpoint(e, fallback) ==
    IF Atoi(e).ok THEN [addr |-> fallback, port |-> Atoi(e).n, err |-> ""]
    ELSE [splitAddrPort(e) EXCEPT !.addr = NormalizeAddr(@, fallback)]
ValidEndpoint(ep) == ep.err = "" /\ ValidatePort(ep.port) /\ validateEndpointHost(ep.addr)
ValidLocalForward(v) ==
    /\ Len(Fields(v)) = 2
    /\ ValidEndpoint(RefEndpoint(Fields(v)[1], "127.0.0.1"))
    /\ ValidEndpoint(RefEndpoint(Fields(v)[2], "localhost"))
RefForward(v) ==
    [LocalAddr |-> RefEndpoint(Fields(v)[1], "127.0.0.1").addr,
     LocalPort |-> RefEndpoint(Fields(v)[1], "127.0.0.1").port,
     RemoteAddr |-> RefEndpoint(Fields(v)[2], "localhost").addr,
     RemotePort |-> RefEndpoint(Fields(v)[2], "localhost").port]

\* a line that is malformed or invalid
Offending(line) ==
    \/ line = LongLine
    \/ ~Skipped(line) /\ ~Directive(line).ok
    \/ IsDirective(line, "localforward") /\ ~ValidLocalForward(Directive(line).value)

\* the ForwardSpec invariant
ForwardInvariant(fwd) ==
    /\ ValidatePort(fwd.LocalPort) /\ ValidatePort(fwd.RemotePort)
    /\ fwd.LocalAddr # "" /\ fwd.RemoteAddr # ""
    /\ validateEndpointHost(fwd.LocalAddr) /\ validateEndpointHost(fwd.RemoteAddr)
    /\ TrimBrackets(fwd.LocalAddr) = fwd.LocalAddr /\ TrimBrackets(fwd.RemoteAddr) = fwd.RemoteAddr

ForwardsIn(hosts) == {hosts[k].Forwards[j] : <<k, j>> \in
                         {kj \in (1 .. Len(hosts)) \X (1 .. 8) : kj[2] <= Len(hosts[kj[1]].Forwards)}}

\* C28: in a root file, a malformed or invalid line never prevents later
\* valid lines from being parsed: ParseFile succeeds, the hosts of the valid
\* Host lines are returned with the forwards of the valid LocalForward lines,
\* there is exactly one warning per offending line, and an invalid
\* LocalForward value yields no forward.
C28_BadLinesSkippedWithWarning ==
    cfgRun.pc = "done" /\ cfgRun.root = RootPath /\ DOMAIN cfgRun.fs = {RootPath} =>
        LET lines == cfgRun.fs[RootPath]
            valid == {i \in 1 .. Len(lines) : IsDirective(lines[i], "localforward")
                                               /\ ValidLocalForward(Directive(lines[i]).value)}
        IN /\ cfgRun.err = ""
           /\ Len(cfgRun.warnings) = Cardinality({i \in 1 .. Len(lines) : Offending(lines[i])})
           /\ (\E i \in 1 .. Len(lines) : IsDirective(lines[i], "host")) =>
                  \E k \in 1 .. Len(cfgRun.hosts) :
                      /\ cfgRun.hosts[k].Alias = "api"
                      /\ \A i \in valid : \E j \in 1 .. Len(cfgRun.hosts[k].Forwards) :
                             cfgRun.hosts[k].Forwards[j] = RefForward(Directive(lines[i]).value)
           /\ ForwardsIn(cfgRun.hosts) \subseteq {RefForward(Directive(lines[i]).value) : i \in valid}

\* C30: every forward of every host the config parser returns satisfies the
\* ForwardSpec invariant (ports in 1-65535, addresses non-empty canonical
\* hosts), so a LocalForward with an out-of-range port or an invalid host
\* produces no forward.
C30_ParsedForwardsValid ==
    cfgRun.pc = "done" => \A fwd \in ForwardsIn(cfgRun.hosts) : ForwardInvariant(fwd)

\* the include chain of a run that started at the first file of a chain
ChainLen == Cardinality(DOMAIN cfgRun.fs)
Min(a, b) == IF a < b THEN a ELSE b
InSeq(seq, x) == \E i \in 1 .. Len(seq) : seq[i] = x
IncludesAgain(path) ==
    /\ ChainLen <= MaxIncludeDepth
    /\ LET last == cfgRun.fs[FileName(ChainLen - 1)]
       IN last[Len(last)] = "Include " \o path \/ (path = FileName(ChainLen - 1)
                                                   /\ last[Len(last)] = "Include f" \o Itoa(ChainLen - 1))
IncludeSafe ==
    cfgRun.pc # "idle" =>
        /\ \A i, j \in 1 .. Len(cfgRun.opened) : cfgRun.opened[i] = cfgRun.opened[j] => i = j
        /\ \A i \in 1 .. Len(cfgRun.stack) : cfgRun.stack[i].depth = i - 1 /\ i - 1 <= MaxIncludeDepth
        /\ cfgRun.pc = "done" =>
            /\ cfgRun.err # "" => cfgRun.err = "scan " \o cfgRun.root \o ": bufio.Scanner: token too long"
            /\ cfgRun.root = FileName(0) =>
                /\ cfgRun.opened = [k \in 1 .. Min(ChainLen, MaxIncludeDepth + 1) |-> FileName(k - 1)]
                /\ ChainLen > MaxIncludeDepth + 1 =>
                       /\ cfgRun.err = ""
                       /\ \E i \in 1 .. Len(cfgRun.warnings) :
                              Contains(cfgRun.warnings[i], "include depth exceeded at "
                                                               \o FileName(MaxIncludeDepth + 1))
                /\ \A path \in DOMAIN cfgRun.fs : IncludesAgain(path) =>
                       InSeq(cfgRun.warnings, "include cycle skipped: " \o path)

\* the work a run has left: the lines and include patterns of the files not
\* visited yet (and their opening) and of the files on the stack
RECURSIVE LinesWork(_, _)
LinesWork(lines, from) ==
    IF from > Len(lines) THEN 0
    ELSE 1 + Len(Fields(lines[from])) + LinesWork(lines, from + 1)
RECURSIVE UnseenWork(_, _)
UnseenWork(run, paths) ==
    IF paths = {} THEN 0
    ELSE LET path == CHOOSE p \in paths : TRUE
         IN 2 + LinesWork(run.fs[path], 1) + UnseenWork(run, paths \ {path})
RECURSIVE StackWork(_, _)
StackWork(run, i) ==
    IF i > Len(run.stack) THEN 0
    ELSE 1 + Len(run.stack[i].todo) + LinesWork(run.fs[run.stack[i].abs], run.stack[i].lineNo + 1)
           + StackWork(run, i + 1)
Work(run) == UnseenWork(run, DOMAIN run.fs \ run.seen) + StackWork(run, 1)

\* a running parse can always take a step, and every step leaves less work
Terminating ==
    cfgRun.pc = "running" =>
        /\ cfgRun.stack # <<>>
        /\ cfgRun' # cfgRun => cfgRun'.pc \in {"running", "done"} /\ Work(cfgRun') < Work(cfgRun)

\* C29: include expansion terminates and never fails the parse: a file that
\* was visited is skipped with a warning and not opened again, files at
\* include depth up to 16 are parsed, and an include that would reach depth
\* 17 only produces a warning and is not descended into.
C29_IncludeBoundedAndTerminates == []IncludeSafe /\ [][Terminating]_vars

\* a chain of 18 files: the first 17 are parsed, the include of the 18th is a warning
C29_Witness ==
    /\ cfgRun.pc = "done" /\ cfgRun.root = FileName(0)
    /\ ChainLen = MaxIncludeDepth + 2
    /\ Len(cfgRun.opened) = MaxIncludeDepth + 1
    /\ Len(cfgRun.hosts) = MaxIncludeDepth + 1
    /\ cfgRun.err = ""
    /\ cfgRun.warnings = <<"include /c/f17 failed: include depth exceeded at /c/f17 (max 16)">>

\* a chain of two files whose second includes the first again
C29_WitnessCycle ==
    /\ cfgRun.pc = "done" /\ cfgRun.root = FileName(0)
    /\ ChainLen = 2 /\ cfgRun.opened = <<FileName(0), FileName(1)>>
    /\ cfgRun.warnings = <<"include cycle skipped: /c/f0">>
    /\ Len(cfgRun.hosts) = 2

(* ---------------- tunnel identity ---------------- *)

\* forwards as callers hand them to RuntimeID: an address may be omitted
\* (empty or blank) or written out
IdAliases == {"api", "db"}
IdForwards ==
    [LocalAddr : {"", " ", "127.0.0.1", "0.0.0.0"}, LocalPort : {1, 8080, 65535},
     RemoteAddr : {"", "localhost", "db.internal"}, RemotePort : {80, 65535}]

\* the same forward with the default written where an address is omitted
WrittenOut(fwd) ==
    [fwd EXCEPT !.LocalAddr = IF TrimSpace(@) = "" THEN "127.0.0.1" ELSE @,
                !.RemoteAddr = IF TrimSpace(@) = "" THEN "localhost" ELSE @]

\* forward arguments without a local address, and LocalForward values
\* without a local or a remote address
IdArgs == {"8080:localhost:80", "1:db.internal:65535", "8080:[::1]:80", " 8080:localhost:80"}
IdLocalForwards == {"8080 localhost:80", "8080 :80", "1 db.internal:65535", ":8080 :80", "0.0.0.0:8080 :80"}

\* the LocalForward value with the defaults written where an address is omitted
WrittenOutEndpoint(e, fallback) ==
    IF Count(e, ":") = 0 THEN fallback \o ":" \o e
    ELSE IF HasPrefix(e, ":") THEN fallback \o e
    ELSE e
WrittenOutLocalForward(v) ==
    WrittenOutEndpoint(Fields(v)[1], "127.0.0.1") \o " " \o WrittenOutEndpoint(Fields(v)[2], "localhost")

IdRecord(via, alias, in, a, b) ==
    [fn |-> "RuntimeID", via |-> via, alias |-> alias, in |-> in, ok |-> a.ok /\ b.ok,
     omitted |-> a.fwd, written |-> b.fwd,
     id |-> FormatRuntimeID(RuntimeID(alias, a.fwd)),
     idWritten |-> FormatRuntimeID(RuntimeID(alias, b.fwd))]

\* RuntimeID of a forward built by a caller, and of the same forward with
\* the defaults written out
RuntimeIDCall(alias, fwd) ==
    /\ parsed.fn = "none"
    /\ parsed' = IdRecord("struct", alias, "", ParseOk(fwd), ParseOk(WrittenOut(fwd)))
    /\ UNCHANGED mainVars /\ UNCHANGED <<evFile, evRead, cfgRun>> /\ UNCHANGED persistVars

\* tunnel up --forward: RuntimeID of the parsed argument, without and with
\* the local address
RuntimeIDOfArgCall(alias, arg) ==
    /\ parsed.fn = "none"
    /\ parsed' = IdRecord("arg", alias, arg, ParseForwardArg(arg),
                          ParseForwardArg("127.0.0.1:" \o TrimSpace(arg)))
    /\ UNCHANGED mainVars /\ UNCHANGED <<evFile, evRead, cfgRun>> /\ UNCHANGED persistVars

\* RuntimeID of a forward of the SSH config, without and with its addresses
RuntimeIDOfLocalForwardCall(alias, v) ==
    /\ parsed.fn = "none"
    /\ parsed' = IdRecord("config", alias, v, parseLocalForward(v),
                          parseLocalForward(WrittenOutLocalForward(v)))
    /\ UNCHANGED mainVars /\ UNCHANGED <<evFile, evRead, cfgRun>> /\ UNCHANGED persistVars

NextIdentity ==
    \/ \E alias \in IdAliases, fwd \in IdForwards : RuntimeIDCall(alias, fwd)
    \/ \E alias \in IdAliases, arg \in IdArgs : RuntimeIDOfArgCall(alias, arg)
    \/ \E alias \in IdAliases, v \in IdLocalForwards : RuntimeIDOfLocalForwardCall(alias, v)

SpecIdentity == InitLifecycle /\ [][NextIdentity]_vars

\* C31: a forward with an omitted local or remote address and the same
\* forward with the default address written out (127.0.0.1, localhost) have
\* the same tunnel id, and the id reads
\* alias|localAddr:localPort|remoteAddr:remotePort with the addresses and
\* ports of the written-out forward.
C31_IdStableUnderCanonicalization ==
    parsed.fn = "RuntimeID" =>
        /\ parsed.ok
        /\ parsed.id = parsed.idWritten
        /\ parsed.id = parsed.alias \o "|"
                \o TrimSpace(parsed.written.LocalAddr) \o ":" \o Itoa(parsed.written.LocalPort) \o "|"
                \o TrimSpace(parsed.written.RemoteAddr) \o ":" \o Itoa(parsed.written.RemotePort)

\* a config forward with both addresses omitted gets the id of the defaults
C31_Witness ==
    /\ parsed.fn = "RuntimeID" /\ parsed.via = "config" /\ parsed.alias = "db"
    /\ parsed.in = "8080 :80"
    /\ parsed.id = "db|127.0.0.1:8080|localhost:80"

\* a forward built with empty addresses
C31_WitnessStruct ==
    /\ parsed.fn = "RuntimeID" /\ parsed.via = "struct"
    /\ parsed.omitted.LocalAddr = "" /\ parsed.omitted.RemoteAddr = ""
    /\ parsed.written.LocalAddr = "127.0.0.1"
    /\ parsed.id = "api|127.0.0.1:1|localhost:65535"

(* ---------------- port range ---------------- *)

\* port numbers at and around the ends of the range, and one inside it
PortEdges == {0 - 1, 0, 1, 8080, 65535, 65536}
\* a port as a user writes it
PortText(n) == IF n < 0 THEN "-" \o Itoa(0 - n) ELSE Itoa(n)
WithPorts(l, r) == [FwdLoop EXCEPT !.LocalPort = l, !.RemotePort = r]

\* forward arguments with these ports, with and without the local address
PortArg(l, r, withAddr) ==
    (IF withAddr THEN "127.0.0.1:" ELSE "") \o PortText(l) \o ":localhost:" \o PortText(r)

\* the forwards a client passes to Start in the port runs: one in range,
\* the others with one port just outside it
PortStartInputs ==
    {FwdLoop, FwdBadPort, FwdBadRemotePort, WithPorts(65536, 80), WithPorts(9000, 0), WithPorts(0 - 1, 80)}

\* ParseForwardArg of an argument written with the ports l and r
ParsePortsCall(l, r, withAddr) ==
    /\ parsed.fn = "none" /\ ops = 0
    /\ parsed' = CallRecord("ParseForwardArg", "ports", PortArg(l, r, withAddr), WithPorts(l, r),
                            ParseForwardArg(PortArg(l, r, withAddr)))
    /\ UNCHANGED mainVars /\ UNCHANGED <<evFile, evRead, cfgRun>> /\ UNCHANGED persistVars

\* the validation at the head of Start, applied to a forward with the ports l and r
StartValidationCall(l, r) ==
    /\ parsed.fn = "none" /\ ops = 0
    /\ parsed' = CallRecord("Start", "ports", "", WithPorts(l, r),
                            [ok |-> StartValidationError(WithPorts(l, r)) = "", fwd |-> WithPorts(l, r),
                             err |-> StartValidationError(WithPorts(l, r))])
    /\ UNCHANGED mainVars /\ UNCHANGED <<evFile, evRead, cfgRun>> /\ UNCHANGED persistVars

\* Ports: the parser and the head of Start are applied to forwards with
\* ports around the ends of the range, or one goroutine calls Start with them.
NextPorts ==
    \/ \E l \in PortEdges, r \in PortEdges, withAddr \in BOOLEAN : ParsePortsCall(l, r, withAddr)
    \/ \E l \in PortEdges, r \in PortEdges : StartValidationCall(l, r)
    \/ \E fwd \in PortStartInputs : parsed.fn = "none" /\ StartCall(1, "api", fwd)
    \/ StartSteps

SpecPorts == InitLifecycle /\ [][NextPorts]_vars

PortErrors == {"invalid local port", "invalid remote port"}
PortsInRange(fwd) ==
    /\ 1 <= fwd.LocalPort /\ fwd.LocalPort <= 65535
    /\ 1 <= fwd.RemotePort /\ fwd.RemotePort <= 65535

\* C32: ParseForwardArg and Start accept a forward exactly when both ports
\* are in 1..65535: with port 0 or 65536 (or any other value outside the
\* range) on either side they return a port error and Start does nothing
\* more, with ports 1 and 65535 they accept the forward.
C32_PortRange ==
    /\ parsed.via = "ports" =>
          /\ parsed.ok <=> PortsInRange(parsed.spec)
          /\ parsed.ok => parsed.fwd = parsed.spec
          /\ ~parsed.ok => parsed.err \in PortErrors
    /\ \A t \in Threads : th[t].op = "Start" =>
          IF PortsInRange(th[t].fwd)
          THEN th[t].err \notin PortErrors
          ELSE th[t].pc = "s_ret" /\ th[t].err \in PortErrors /\ th[t].id = NoId /\ th[t].gen = 0

\* the argument with local port 1 and remote port 65535 is accepted
C32_Witness ==
    /\ parsed.fn = "ParseForwardArg" /\ parsed.in = "1:localhost:65535"
    /\ parsed.ok /\ parsed.fwd.LocalPort = 1 /\ parsed.fwd.RemotePort = 65535

\* Start's validation passes the forward with local port 65535 and remote port 1
C32_WitnessStart ==
    /\ parsed.fn = "Start" /\ parsed.spec.LocalPort = 65535 /\ parsed.spec.RemotePort = 1
    /\ parsed.err = ""

\* Start has returned a port error for remote port 65536; another Start is up
C32_WitnessRejected ==
    /\ th[1].op = "Start" /\ th[1].pc = "s_ret" /\ th[1].fwd = FwdBadRemotePort
    /\ th[1].err = "invalid remote port"
    /\ runtime[IdApi].State = "up"

(* ---------------- overlapping Start and Stop ---------------- *)

\* no Manager call is in flight
Quiet == \A t \in Threads : th[t].pc = "idle"
\* the children launched for id that are running
RunningChildren(id) == {g \in Gens : procs[g].id = id /\ procs[g].status = "running"}

\* Overlap: goroutine 1 starts one tunnel, again and again, while goroutine 2
\* stops it; auto-restart is off.
NextOverlap ==
    \/ Steps
    \/ StartCall(1, "api", FwdLoop)
    \/ Stop(2, IdApi)

SpecOverlap == InitLifecycle /\ [][NextOverlap]_vars

\* C33: once overlapping Start and Stop calls on one id have returned, the
\* entry is as after some serial order of them: an entry left down has no
\* running child, and an entry left up with its child running still has
\* the cancel handle of that child.
C33_StartStopSerial ==
    Quiet =>
        \A id \in Ids :
            /\ runtime[id].State = "down" => RunningChildren(id) = {}
            /\ runtime[id].State = "up" /\ runtime[id].PID \in RunningChildren(id)
                  => cancel[id] = runtime[id].PID

\* C34: at no time are two children that the supervisor launched for one
\* tunnel id alive together, however the Start calls interleave.
C34_OneChildPerId ==
    \A id \in Ids : Cardinality(RunningChildren(id)) <= 1

(* ---------------- watchers and generations ---------------- *)

\* the watcher of child g runs its critical section in this step
WatcherActs(g) == watcher[g] = "waiting" /\ watcher'[g] # "waiting"
\* the entry of the child g has been seeded again since g was launched
StartedAgain(g) == runtime[procs[g].id].StartedAt # g

\* C35: the watcher of a child whose id has been started again leaves the
\* new generation alone: the entry's state and LastError and the cancel
\* handle of the new generation are as before the watcher ran.
C35_WatcherOwnGeneration ==
    [][\A g \in Gens :
          WatcherActs(g) /\ StartedAgain(g) =>
              /\ runtime'[procs[g].id].State = runtime[procs[g].id].State
              /\ runtime'[procs[g].id].LastError = runtime[procs[g].id].LastError
              /\ cancel'[procs[g].id] = cancel[procs[g].id]]_vars

(* ---------------- Stop during the backoff ---------------- *)

\* a restart of id is scheduled: the backoff timer of one of its children runs
RestartScheduled(id) == \E g \in Gens : watcher[g] = "backoff" /\ procs[g].id = id

\* BackoffStop: goroutine 1 starts one tunnel with auto-restart on; its
\* children exit with a failure status; during the backoff of a scheduled
\* restart goroutine 1 calls Stop, once; goroutine 2 is the restart scheduler.  The
\* stable window does not elapse.
NextBackoffStop ==
    \/ \E t \in Threads : StartSeed(t)
    \/ \E t \in Threads : StartTunnel(t)
    \/ \E t \in Threads : StartFailed(t)
    \/ \E t \in Threads : StartSucceeded(t)
    \/ \E t \in Threads : StartGet(t)
    \/ \E t \in Threads : StartReturn(t)
    \/ \E g \in Gens : ProcExit(g, TRUE)
    \/ \E g \in Gens : watchProcess(g)
    \/ StopSteps
    \/ \E g \in Gens : RestartConsult(g)
    \/ \E g \in Gens : RestartFire(2, g)
    \/ ops = 0 /\ StartCall(1, "api", FwdLoop)
    \/ ops = 1 /\ RestartScheduled(IdApi) /\ Stop(1, IdApi)

SpecBackoffStop == InitRestart /\ [][NextBackoffStop]_vars

TimerFires(g) == g \in resetTimer /\ g \notin resetTimer'
\* the entry has been up with the child g ever since that Start
UpSince(g) == runtime[procs[g].id].State = "up" /\ runtime[procs[g].id].PID = g
                 /\ procs[g].status = "running"
\* a Start of id is between its seed and its return
StartInFlight(id) == \E t \in Threads : th[t].id = id /\ th[t].pc \in {"s_launch", "s_ok", "s_fail", "s_get", "s_ret"}

C37_WitnessRestarted ==
    /\ watcher[1] = "done" /\ 1 \notin resetTimer
    /\ runtime[IdApi].State = "up" /\ runtime[IdApi].StartedAt = 2
    /\ restartAttempts[IdApi] = 1

(* ---------------- the mutex and I/O ---------------- *)

\* this step writes m.runtime or m.cancel, which the code does only between
\* m.mu.Lock and m.mu.Unlock
MutexHeld == runtime' # runtime \/ cancel' # cancel
\* LoadRuntime's loop runs processCommand, which spawns ps, for every saved
\* record whose PID answers signal 0
SpawnsPs(t) ==
    /\ LoadLocked(t)
    /\ \E id \in Ids : /\ th[t].arr[id].State # "absent"
                       /\ th[t].arr[id].PID > 0 /\ processAlive(th[t].arr[id].PID)
\* this step calls the launcher, signals a child, dials a probe, appends an
\* event, writes the runtime file or spawns a process
PerformsIO ==
    \/ \E t \in Threads : StartTunnel(t) \/ StopSignal(t) \/ SpawnsPs(t)
    \/ \E c \in Calls, id \in Ids, r \in ProbeOutcomes : ProbeDial(c, id, r)
    \/ journal' # journal
    \/ disk' # disk

\* C38: the mutex is never held while performing I/O: no step that runs
\* with the lock held calls the launcher, signals or spawns a process, dials
\* a probe, writes the runtime file or appends an event.
C38_NoIOUnderLock == [][MutexHeld => ~PerformsIO]_vars

(* ---------------- the runtime file ---------------- *)

\* the runtime file an earlier session left: the tunnel up under a saved PID
SavedFile == [id \in Ids |-> IF id = IdApi THEN [State |-> "up", PID |-> ExtPidOf(IdApi)]
                                           ELSE FileRecord(NoEntry)]
\* LoadRuntime comes before any Start or Stop when there is a runtime file
Loaded == disk = NoFile \/ ops > 0

\* Persist: the runtime file is kept.  The Manager is built with or without
\* a runtime file of an earlier session; goroutine 1 loads the file, whatever
\* the OS holds under the saved PID, then goroutine 1 starts the tunnel and
\* goroutine 2 stops it, every task calling persist after its transition.
InitPersist ==
    /\ NewManager /\ ~restartEnabled /\ bindPolicy = BindPolicyLoopbackOnly /\ ~journalOn
    /\ persistOn = TRUE
    /\ disk \in {NoFile, SavedFile}

NextPersist ==
    \/ Steps
    \/ \E k \in Tasks : PersistSnapshot(k)
    \/ \E k \in Tasks : PersistWrite(k)
    \/ \E os \in [{IdApi} -> {"alive_match", "alive_other", "dead"}] :
          disk = SavedFile /\ LoadRuntime(1, {IdApi}, "up", os)
    \/ LoadLocked(1)
    \/ Loaded /\ StartCall(1, "api", FwdLoop)
    \/ Loaded /\ Stop(2, IdApi)

SpecPersist == InitPersist /\ [][NextPersist]_vars

\* every operation, watcher and persist call has finished
PersistQuiet ==
    /\ \A t \in Threads : th[t].pc = "idle"
    /\ \A g \in Gens : watcher[g] \in {"none", "done"}
    /\ \A k \in Tasks : persistSt[k].st = "none"

\* C39: persistence converges: whenever every operation, watcher and persist
\* call has finished, the runtime file holds the state and PID of every entry
\* of the runtime map and nothing else, after LoadRuntime as after Start, Stop
\* and the watcher, however the persist calls interleave.
C39_PersistConverges ==
    PersistQuiet /\ ops > 0 => \A id \in Ids : disk[id] = FileRecord(runtime[id])

\* the same without a runtime file of an earlier session, where every
\* mutation is followed by a persist call
C39_ConvergesWithoutLoad ==
    PersistQuiet /\ ops > 0 /\ ext[IdApi] = "none" =>
        \A id \in Ids : disk[id] = FileRecord(runtime[id])

(* ---------------- the cancel map ---------------- *)

\* the entry of id was seeded by a Start of this Manager (a record that
\* LoadRuntime restored carries no started-at)
LaunchedHere(id) == runtime[id].StartedAt # 0

\* no call is in flight and every child that has exited has been handled by
\* its watcher
Settled == Quiet /\ \A g \in Gens : procs[g].status # "dead"

\* C40: whenever no operation is in flight, the cancel map holds a handle
\* for an id exactly when the entry is starting or up and was launched by
\* this Manager: a down, error or quarantined entry has none, every up entry
\* this Manager started has one, and so has every child it launched that is
\* still running.
C40_CancelMatchesState ==
    Settled =>
        \A id \in Ids :
            /\ cancel[id] # 0 <=> runtime[id].State \in {"starting", "up"} /\ LaunchedHere(id)
            /\ RunningChildren(id) # {} => cancel[id] # 0

\* the first half alone: the handle goes with the states starting and up
C40_HandleIffActive ==
    Settled =>
        \A id \in Ids :
            cancel[id] # 0 <=> runtime[id].State \in {"starting", "up"} /\ LaunchedHere(id)

====
